---- MODULE Spec2Model ----
(***************************************************************************)
(* Address geocoding cache and rate-limited resolver of daisy-data-viewer:  *)
(* cleansing/address_cache.py (AddressCacheManager) and                     *)
(* cleansing/geocoder.py (CachedGeocoder).                                  *)
(*                                                                          *)
(* Strings are sequences of one-character strings, so that lowercasing,     *)
(* stripping and the regular-expression substitutions of normalize_address  *)
(* are computed character by character.                                     *)
(***************************************************************************)
EXTENDS Integers, Sequences, FiniteSets, TLC

VARIABLES
    cache,          \* Firestore collection "address_cache": doc id -> document
    requests_made,  \* CachedGeocoder.requests_made
    cache_hits,     \* CachedGeocoder.cache_hits
    now,            \* the wall clock read by datetime.now()
    last,           \* observation of the last call: inputs, outcome, return value
    run,            \* observation: the calls so far are non-forced resolves of one address
    pure,           \* inputs and outputs of the pure functions
    rate_limit,     \* CachedGeocoder.rate_limit
    last_request_time,  \* CachedGeocoder.last_request_time
    threads,        \* the callers inside a method: thread -> position and locals
    acquired,       \* observation: the clock readings stored by _rate_limit, in order
    purge,          \* clear_cache in progress: position, locals, return value
    stats           \* get_cache_stats, get_invalid_addresses: whether the stream
                    \* raised, the value returned

vars == <<cache, requests_made, cache_hits, now, last, run, pure,
          rate_limit, last_request_time, threads, acquired, purge, stats>>

\* the state of the maintenance calls clear_cache and get_cache_stats
maintenanceVars == <<purge, stats>>

\* the rate limiter's fields and the callers inside it
limiterVars == <<rate_limit, last_request_time, threads, acquired>>

(***************************************************************************)
(* Bounds of the model.                                                     *)
(***************************************************************************)
MaxAddrLen == 3     \* longest raw string given to the pure address functions
MaxTime == 1        \* the clock runs 0..MaxTime
MaxCalls == 3       \* provider calls per session
MaxHits == 1        \* session cache hits, and hits of one entry
MaxClock == 6       \* the clock of the rate limiter runs up to MaxClock ticks
MaxAcquires == 3    \* calls of _rate_limit in one run
MaxResolves == 3    \* geocode calls started by the threads sharing a geocoder
MaxBatches == 2     \* write batches one clear_cache call needs at most
MaxComponents == 3  \* address components in one provider result
MaxRecords == 3     \* records in one batch run
MaxDocs == 2        \* documents in the collections get_cache_stats is drawn on
LargeUsage == 2001  \* the usage_count of a heavily used entry

(***************************************************************************)
(* Characters.                                                              *)
(***************************************************************************)
Alphabet == {"s", "t", "S", ",", " "}

\* str.lower() on the letters used by the model
LowerChar(c) ==
    CASE c = "S" -> "s"
      [] c = "T" -> "t"
      [] c = "R" -> "r"
      [] c = "D" -> "d"
      [] OTHER -> c

\* \s of the re module and the characters str.strip() removes
IsSpace(c) == c \in {" ", "\t", "\n", "\r"}

\* the character class [,\.#]
IsPunct(c) == c \in {",", ".", "#"}

\* \w of the re module: letters, digits and the underscore
IsWord(c) ==
    c \in {"a", "b", "c", "d", "e", "f", "g", "h", "i", "j", "k", "l", "m",
           "n", "o", "p", "q", "r", "s", "t", "u", "v", "w", "x", "y", "z",
           "A", "B", "C", "D", "E", "F", "G", "H", "I", "J", "K", "L", "M",
           "N", "O", "P", "Q", "R", "S", "T", "U", "V", "W", "X", "Y", "Z",
           "0", "1", "2", "3", "4", "5", "6", "7", "8", "9", "_"}

\* F applied to the value of x: x is evaluated once, before F uses it
Bind(x, F(_)) == CHOOSE r \in {F(v) : v \in {x}} : TRUE

\* str.lower()
RECURSIVE lower(_)
lower(s) ==
    IF s = <<>> THEN <<>>
    ELSE <<LowerChar(Head(s))>> \o lower(Tail(s))

RECURSIVE lstrip(_)
lstrip(s) ==
    IF s = <<>> THEN <<>>
    ELSE IF IsSpace(Head(s)) THEN lstrip(Tail(s))
    ELSE s

RECURSIVE rstrip(_)
rstrip(s) ==
    IF s = <<>> THEN <<>>
    ELSE IF IsSpace(s[Len(s)]) THEN rstrip(SubSeq(s, 1, Len(s) - 1))
    ELSE s

\* str.strip()
strip(s) == Bind(lstrip(s), rstrip)

\* re.sub(r'[,\.#]', ' ', normalized)
RECURSIVE sub_punct(_)
sub_punct(s) ==
    IF s = <<>> THEN <<>>
    ELSE <<IF IsPunct(Head(s)) THEN " " ELSE Head(s)>> \o sub_punct(Tail(s))

\* a match of pat at position i of s with no word boundary asked for: what a
\* plain substring replacement matches
MatchesAtSubstring(s, i, pat) ==
    /\ i + Len(pat) - 1 <= Len(s)
    /\ SubSeq(s, i, i + Len(pat) - 1) = pat

\* r'\bpat\b' matches at position i of s (pat is made of word characters)
MatchesAt(s, i, pat) ==
    /\ i + Len(pat) - 1 <= Len(s)
    /\ SubSeq(s, i, i + Len(pat) - 1) = pat
    /\ (i = 1 \/ ~IsWord(s[i - 1]))
    /\ (i + Len(pat) > Len(s) \/ ~IsWord(s[i + Len(pat)]))

\* re.sub(r'\bpat\b', rep, s): leftmost non-overlapping matches, from position i on
RECURSIVE sub_word(_, _, _, _)
sub_word(s, i, pat, rep) ==
    IF i > Len(s) THEN <<>>
    ELSE IF MatchesAt(s, i, pat)
         THEN rep \o Bind(i + Len(pat), LAMBDA j : sub_word(s, j, pat, rep))
         ELSE <<s[i]>> \o Bind(i + 1, LAMBDA j : sub_word(s, j, pat, rep))

\* the replacements dict, in insertion order
replacements ==
    << << <<"s", "t">>,      <<"s", "t", "r", "e", "e", "t">> >>,
       << <<"r", "d">>,      <<"r", "o", "a", "d">> >>,
       << <<"a", "v", "e">>, <<"a", "v", "e", "n", "u", "e">> >>,
       << <<"d", "r">>,      <<"d", "r", "i", "v", "e">> >>,
       << <<"p", "l">>,      <<"p", "l", "a", "c", "e">> >>,
       << <<"a", "p", "t">>, <<"a", "p", "a", "r", "t", "m", "e", "n", "t">> >>,
       << <<"u", "n", "i", "t">>, <<"u", "n", "i", "t">> >> >>

\* for pattern, replacement in replacements.items(): normalized = re.sub(...)
RECURSIVE apply_replacements(_, _)
apply_replacements(s, k) ==
    IF k > Len(replacements) THEN s
    ELSE Bind(sub_word(s, 1, replacements[k][1], replacements[k][2]),
              LAMBDA t : apply_replacements(t, k + 1))

\* re.sub(r'\s+', ' ', normalized)
RECURSIVE collapse_spaces(_)
collapse_spaces(s) ==
    IF s = <<>> THEN <<>>
    ELSE IF IsSpace(Head(s))
         THEN <<" ">> \o Bind(lstrip(s), collapse_spaces)
         ELSE <<Head(s)>> \o Bind(Tail(s), collapse_spaces)

\* AddressCacheManager.normalize_address
normalize_address(address) ==
    IF address = <<>> THEN <<>>
    ELSE Bind(lower(address), LAMBDA lowered :
         Bind(strip(lowered), LAMBDA stripped :
         Bind(sub_punct(stripped), LAMBDA unpunctuated :
         Bind(apply_replacements(unpunctuated, 1), LAMBDA expanded :
         Bind(collapse_spaces(expanded), strip)))))

\* hashlib.sha256(...).hexdigest()[:16]: a digest is a function of its input, is
\* never the empty string, and is taken to be free of collisions on the
\* strings of the model; it is written as the input behind a digest mark.
sha256_hexdigest16(normalized) == <<"#">> \o normalized

\* get_address_hash that digests the raw text instead of the normalized one
HashRaw(address) ==
    Bind(normalize_address(address), LAMBDA normalized :
         IF normalized = <<>> THEN <<>> ELSE sha256_hexdigest16(address))

\* AddressCacheManager.get_address_hash
get_address_hash(address) ==
    Bind(normalize_address(address), LAMBDA normalized :
         IF normalized = <<>> THEN <<>> ELSE sha256_hexdigest16(normalized))

\* not address or not address.strip()
IsBlank(address) == address = <<>> \/ strip(address) = <<>>


(***************************************************************************)
(* Values.  Python's None is the empty sequence and a present value x is    *)
(* <<x>>, so that an absent field and a present one compare.                *)
(***************************************************************************)
None == <<>>
Some(x) == <<x>>

\* the raw address strings the callers pass in: "St," normalizes to "street",
\* "tt" to itself, "," to the empty string, " " is blank, "" is empty
Addresses ==
    { <<"S", "t", ",">>, <<"t", "t">>, <<",">>, <<" ">>, <<>> }

Uids == {"u1"}

\* what the geocoding endpoint can answer to one request: a status with the
\* first result's place (OK only), or no answer at all (Timeout, Exception)
Responses ==
    { [status |-> "OK", place |-> "p1", partial_match |-> FALSE],
      [status |-> "ZERO_RESULTS", place |-> "", partial_match |-> FALSE],
      [status |-> "OVER_QUERY_LIMIT", place |-> "", partial_match |-> FALSE],
      [status |-> "REQUEST_DENIED", place |-> "", partial_match |-> FALSE],
      [status |-> "INVALID_REQUEST", place |-> "", partial_match |-> FALSE],
      [status |-> "Timeout", place |-> "", partial_match |-> FALSE],
      [status |-> "Exception", place |-> "", partial_match |-> FALSE] }

\* no request is sent
NoCall == [status |-> "-", place |-> "", partial_match |-> FALSE]

ErrorStatuses ==
    {"OVER_QUERY_LIMIT", "REQUEST_DENIED", "INVALID_REQUEST", "Timeout", "Exception"}

\* a dict for status OK that carries no location
GeocodedResultNoLocation(resp) ==
    [ formatted_address |-> <<resp.place>>,
      lat |-> None,
      lng |-> None,
      valid |-> TRUE,
      partial_match |-> resp.partial_match,
      error |-> None ]

\* the dict built for status OK (geocoder.py:93-107)
GeocodedResult(resp) ==
    [ formatted_address |-> <<resp.place>>,
      lat |-> Some(resp.place),
      lng |-> Some(resp.place),
      valid |-> TRUE,
      partial_match |-> resp.partial_match,
      error |-> None ]

\* the dict built for status ZERO_RESULTS (geocoder.py:113-126)
NotFoundResult(address) ==
    [ formatted_address |-> address,
      lat |-> None,
      lng |-> None,
      valid |-> FALSE,
      partial_match |-> FALSE,
      error |-> Some("Address not found") ]

\* the pure address functions on the addresses the callers pass in, computed once
RECURSIVE Tabulate(_, _)
Tabulate(F(_), S) ==
    IF S = {} THEN <<>>
    ELSE LET a == CHOOSE x \in S : TRUE
         IN (a :> F(a)) @@ Tabulate(F, S \ {a})

HashTable == Tabulate(get_address_hash, Addresses)
NormalizedTable == Tabulate(normalize_address, Addresses)
StrippedTable == Tabulate(strip, Addresses)

HashOf(a) == IF a \in DOMAIN HashTable THEN HashTable[a] ELSE get_address_hash(a)
NormalizedOf(a) == IF a \in DOMAIN NormalizedTable THEN NormalizedTable[a] ELSE normalize_address(a)
\* the address taken as it is, without address.strip()
Unstripped(a) == a

StrippedOf(a) == IF a \in DOMAIN StrippedTable THEN StrippedTable[a] ELSE strip(a)

\* _call_google_api that takes a denied or over-quota request for "not found"
CallGoogleApiDeniedAsNotFound(address, resp) ==
    IF resp.status = "OK" THEN Some(GeocodedResult(resp))
    ELSE IF resp.status \in {"ZERO_RESULTS", "REQUEST_DENIED", "OVER_QUERY_LIMIT"}
    THEN Some(NotFoundResult(address))
    ELSE None

\* _call_google_api with every non-OK answer turned into a not-found result
CallGoogleApiCachingErrors(address, resp) ==
    IF resp.status = "OK" THEN Some(GeocodedResult(resp))
    ELSE Some(NotFoundResult(address))

\* CachedGeocoder._call_google_api: the value returned for the answer resp
call_google_api(address, resp) ==
    IF resp.status = "OK" THEN Some(GeocodedResult(resp))
    ELSE IF resp.status = "ZERO_RESULTS" THEN Some(NotFoundResult(address))
    ELSE None

(***************************************************************************)
(* AddressCacheManager.  Each operation is given the collection c, the      *)
(* clock reading t and, for every Firestore call it makes, whether that     *)
(* call raises; it yields the collection afterwards, the value returned and *)
(* the Firestore calls it made.                                             *)
(***************************************************************************)
\* a write that leaves only the written document in the collection
PutAlone(c, key, doc) == [k \in {key} |-> doc]

Put(c, key, doc) == [k \in DOMAIN c \cup {key} |-> IF k = key THEN doc ELSE c[k]]

\* the update of a hit that writes last_used and leaves usage_count alone
UsageUpdateLastUsedOnly(doc, t) ==
    [doc EXCEPT !.last_used = t]

\* update({"usage_count": Increment(1), "last_used": now})
UsageUpdate(doc, t) ==
    [doc EXCEPT !.usage_count = @ + 1, !.last_used = t]

\* AddressCacheManager.get_cached_geocoding
get_cached_geocoding(c, address, t, get_raises, update_raises) ==
    LET address_hash == HashOf(address) IN
    IF StrippedOf(address) = <<>> \/ address_hash = <<>>
    THEN [cache |-> c, ret |-> None, calls |-> {}]
    ELSE IF get_raises
    THEN [cache |-> c, ret |-> None, calls |-> {"get"}]
    ELSE IF address_hash \in DOMAIN c
    THEN IF update_raises
         THEN [cache |-> c, ret |-> None, calls |-> {"get", "update"}]
         ELSE [cache |-> Put(c, address_hash, UsageUpdate(c[address_hash], t)),
               ret |-> Some(c[address_hash].google_result),
               calls |-> {"get", "update"}]
    ELSE [cache |-> c, ret |-> None, calls |-> {"get"}]

\* cache_data of save_geocoding_result (address_cache.py:138-147)
CacheData(address, geocoding_result, uid, t) ==
    [ original_address |-> StrippedOf(address),
      normalized_address |-> NormalizedOf(address),
      geocoded_at |-> t,
      geocoded_by_uid |-> uid,
      google_result |-> geocoding_result,
      usage_count |-> 1,
      last_used |-> t,
      manual_override |-> FALSE ]

\* document(id).set(data, merge=True): every field of data is written, the
\* other fields of an existing document stay
SetMerge(c, key, data) ==
    IF key \in DOMAIN c
    THEN Put(c, key, [f \in DOMAIN c[key] |->
                        IF f \in DOMAIN data THEN data[f] ELSE c[key][f]])
    ELSE Put(c, key, [f \in DOMAIN data \cup {"override_at", "override_by_uid"} |->
                        IF f \in DOMAIN data THEN data[f] ELSE None])

\* save_geocoding_result whose write goes through although set() raised
SaveDespiteFailure(c, address, geocoding_result, uid, t, set_raises) ==
    LET address_hash == HashOf(address) IN
    IF StrippedOf(address) = <<>> \/ address_hash = <<>>
    THEN [cache |-> c, ret |-> <<>>, calls |-> {}]
    ELSE [cache |-> SetMerge(c, address_hash, CacheData(address, geocoding_result, uid, t)),
          ret |-> address_hash,
          calls |-> {"write"}]

\* AddressCacheManager.save_geocoding_result
save_geocoding_result(c, address, geocoding_result, uid, t, set_raises) ==
    LET address_hash == HashOf(address) IN
    IF StrippedOf(address) = <<>> \/ address_hash = <<>>
    THEN [cache |-> c, ret |-> <<>>, calls |-> {}]
    ELSE IF set_raises
    THEN [cache |-> c, ret |-> <<>>, calls |-> {"write"}]
    ELSE [cache |-> SetMerge(c, address_hash, CacheData(address, geocoding_result, uid, t)),
          ret |-> address_hash,
          calls |-> {"write"}]

\* AddressCacheManager.manual_recheck; document(id).update(...) raises
\* NotFound when the document does not exist
manual_recheck(c, address, geocoding_result, uid, t, update_raises) ==
    LET address_hash == HashOf(address) IN
    IF address_hash = <<>>
    THEN [cache |-> c, ret |-> <<>>, calls |-> {}]
    ELSE IF update_raises \/ address_hash \notin DOMAIN c
    THEN [cache |-> c, ret |-> <<>>, calls |-> {"write"}]
    ELSE [cache |-> Put(c, address_hash,
                        [c[address_hash] EXCEPT !.google_result = geocoding_result,
                                                !.manual_override = TRUE,
                                                !.override_at = Some(t),
                                                !.override_by_uid = Some(uid)]),
          ret |-> address_hash,
          calls |-> {"write"}]

\* limit: int = 100 of get_invalid_addresses
DefaultLimit == 100

\* a query without the where("google_result.valid", "==", False) filter
AllKeys(c) == DOMAIN c

\* the documents the query where("google_result.valid", "==", False) matches
InvalidKeys(c) == {k \in DOMAIN c : c[k].google_result.valid = FALSE}

\* AddressCacheManager.get_invalid_addresses: the sets of documents the query
\* with .limit(limit) can stream (Firestore picks which, when more match)
get_invalid_addresses(c, limit) ==
    {S \in SUBSET InvalidKeys(c) :
        Cardinality(S) = IF Cardinality(InvalidKeys(c)) < limit
                         THEN Cardinality(InvalidKeys(c)) ELSE limit}

(***************************************************************************)
(* CachedGeocoder.geocode, as one step of a single sequential caller.       *)
(***************************************************************************)
\* the outcome of geocode(address, uid, force_recheck) from collection c and
\* counters rm (requests_made), ch (cache_hits), when the provider answers
\* resp to the request, if one is sent, and the Firestore calls in raises raise
geocode(c, rm, ch, address, uid, force_recheck, resp, t, raises) ==
    LET cached == IF force_recheck
                  THEN [cache |-> c, ret |-> None, calls |-> {}]
                  ELSE get_cached_geocoding(c, address, t, "get" \in raises,
                                            "update" \in raises)
        result == call_google_api(address, resp)
        write  == IF force_recheck
                  THEN manual_recheck(c, address, result[1], uid, t, "write" \in raises)
                  ELSE save_geocoding_result(c, address, result[1], uid, t,
                                             "write" \in raises)
    IN
    IF StrippedOf(address) = <<>>
    THEN [cache |-> c, requests_made |-> rm, cache_hits |-> ch, ret |-> None,
          called |-> FALSE, hit |-> FALSE, write |-> "none", write_ret |-> <<>>,
          calls |-> {}]
    ELSE IF cached.ret # None
    THEN [cache |-> cached.cache, requests_made |-> rm, cache_hits |-> ch + 1,
          ret |-> cached.ret,
          called |-> FALSE, hit |-> TRUE, write |-> "none", write_ret |-> <<>>,
          calls |-> cached.calls]
    ELSE IF result = None
    THEN [cache |-> c, requests_made |-> rm + 1, cache_hits |-> ch, ret |-> None,
          called |-> TRUE, hit |-> FALSE, write |-> "none", write_ret |-> <<>>,
          calls |-> cached.calls]
    ELSE [cache |-> write.cache, requests_made |-> rm + 1, cache_hits |-> ch,
          ret |-> result,
          called |-> TRUE, hit |-> FALSE,
          write |-> IF force_recheck THEN "manual_recheck" ELSE "save_geocoding_result",
          write_ret |-> write.ret,
          calls |-> cached.calls \cup write.calls]

\* how the provider's answer is observed: the status, with the statuses and
\* failures that end in "return None" observed as one
Outcome(resp) == IF resp.status \in ErrorStatuses THEN "error" ELSE resp.status

\* the ways the Firestore calls of the cache lookup of one geocode call can
\* raise: only a call that is made can raise
ReadFaults(c, address, force_recheck) ==
    IF force_recheck THEN {{}}
    ELSE {r \in SUBSET {"get", "update"} :
            r \subseteq get_cached_geocoding(c, address, 0, "get" \in r, "update" \in r).calls}

\* the provider's answers to one geocode call: none when no request is sent
Answers(c, address, force_recheck, read_raises) ==
    IF \/ StrippedOf(address) = <<>>
       \/ /\ ~force_recheck
          /\ get_cached_geocoding(c, address, 0, "get" \in read_raises,
                                  "update" \in read_raises).ret # None
    THEN {NoCall}
    ELSE Responses

WithinBounds(c, rm, ch) ==
    /\ rm <= MaxCalls
    /\ ch <= MaxHits
    /\ \A k \in DOMAIN c : c[k].usage_count <= 1 + MaxHits

NoRun == [address |-> <<>>, n |-> 0, clean |-> FALSE]

\* a field of pure that no action has filled in yet
Unset == <<"?">>

Idle == [stage |-> "idle", a |-> <<>>, b |-> <<>>, na |-> Unset, nb |-> Unset,
         nna |-> Unset, ka |-> Unset, kb |-> Unset, stored |-> Unset]

\* the state after AddressCacheManager(db) and CachedGeocoder(api_key, cache_mgr)
\* are constructed on an empty collection (geocoder.py:21-26)
CountersAt(t) ==
    /\ requests_made = 0
    /\ cache_hits = 0
    /\ now = t
    /\ last = [op |-> "init", address |-> <<>>, force_recheck |-> FALSE, outcome |-> "-",
               store_error |-> FALSE, ret |-> None, hit |-> FALSE, write |-> "none",
               write_ret |-> <<>>, calls |-> {}, raises |-> {}]
    /\ run = [address |-> <<>>, n |-> 0, clean |-> TRUE]

\* the geocoder constructed at clock reading t over an empty collection
SessionAt(t) ==
    /\ cache = <<>>
    /\ CountersAt(t)

InitSession == SessionAt(0)

\* rate_limit: int = 50 (geocoder.py:12)
DefaultRateLimit == 50

\* the rate limiter after __init__, with no caller inside a method
InitLimiter ==
    /\ rate_limit = DefaultRateLimit
    /\ last_request_time = 0
    /\ threads = <<>>
    /\ acquired = <<>>

\* no clear_cache and no get_cache_stats call made
NoMaintenance ==
    /\ purge = [pc |-> "idle"]
    /\ stats = [pc |-> "idle"]

Init ==
    /\ InitSession
    /\ InitLimiter
    /\ NoMaintenance
    /\ pure = Idle

\* time passes between calls
Tick ==
    /\ now < MaxTime
    /\ now' = now + 1
    /\ UNCHANGED <<cache, requests_made, cache_hits, last, run, pure>>
    /\ UNCHANGED <<limiterVars, maintenanceVars>>

\* the effect of one call geocode(address, uid, force_recheck) on the collection,
\* the session counters and the observations
GeocodeCall(address, uid, force_recheck, resp, raises) ==
    \E g \in {geocode(cache, requests_made, cache_hits, address, uid,
                     force_recheck, resp, now, raises)} :
    /\ g.called <=> (resp # NoCall)
    /\ raises \subseteq g.calls
    /\ WithinBounds(g.cache, g.requests_made, g.cache_hits)
    /\ cache' = g.cache
    /\ requests_made' = g.requests_made
    /\ cache_hits' = g.cache_hits
    /\ last_request_time' = IF g.called THEN now ELSE last_request_time
    /\ UNCHANGED <<rate_limit, threads, acquired, maintenanceVars>>
    /\ last' = [op |-> "geocode", address |-> address,
                force_recheck |-> force_recheck,
                outcome |-> Outcome(resp), store_error |-> (raises # {}),
                ret |-> g.ret, hit |-> g.hit, write |-> g.write,
                write_ret |-> g.write_ret, calls |-> g.calls, raises |-> raises]
    /\ run' = IF /\ run.clean
                 /\ StrippedOf(address) # <<>>
                 /\ ~force_recheck
                 /\ raises = {}
                 /\ resp.status \notin ErrorStatuses
                 /\ (run.n = 0 \/ run.address = address)
              THEN [address |-> address, n |-> run.n + 1, clean |-> TRUE]
              ELSE NoRun

\* one call of CachedGeocoder.geocode (customer_processor.py:91,
\* booking_processor.py:107/121, app.py:874)
Geocode ==
    \E address \in Addresses, uid \in Uids, force_recheck \in BOOLEAN :
      \E read_raises \in ReadFaults(cache, address, force_recheck) :
        \E resp \in Answers(cache, address, force_recheck, read_raises) :
          \E raises \in {read_raises, read_raises \cup {"write"}} :
            /\ GeocodeCall(address, uid, force_recheck, resp, raises)
            /\ UNCHANGED <<now, pure>>

\* one direct call of AddressCacheManager.get_cached_geocoding (app.py:834)
Lookup ==
    \E address \in Addresses, raises \in SUBSET {"get", "update"} :
      \E l \in {get_cached_geocoding(cache, address, now, "get" \in raises,
                                     "update" \in raises)} :
        /\ raises \subseteq l.calls
        /\ WithinBounds(l.cache, requests_made, cache_hits)
        /\ cache' = l.cache
        /\ last' = [op |-> "lookup", address |-> address, force_recheck |-> FALSE,
                    outcome |-> "-", store_error |-> (raises # {}), ret |-> l.ret,
                    hit |-> (l.ret # None), write |-> "none", write_ret |-> <<>>,
                    calls |-> l.calls, raises |-> raises]
        /\ run' = NoRun
        /\ UNCHANGED <<requests_made, cache_hits, now, pure>>
        /\ UNCHANGED <<limiterVars, maintenanceVars>>

Next == Tick \/ Geocode \/ Lookup

Spec == Init /\ [][Next]_vars

(***************************************************************************)
(* The pure address functions on every string up to MaxAddrLen characters,  *)
(* and the resolution of two near-duplicate addresses one after the other.  *)
(***************************************************************************)
Strings(n) == UNION {[1..k -> Alphabet] : k \in 0..n}

AddressInit ==
    /\ InitSession
    /\ InitLimiter
    /\ NoMaintenance
    /\ pure \in {[Idle EXCEPT !.stage = "input", !.a = x, !.b = y] :
                    x \in Strings(MaxAddrLen), y \in Strings(MaxAddrLen - 1)}

\* normalize_address on both inputs
NormalizeBoth ==
    /\ pure.stage = "input"
    /\ pure' = [pure EXCEPT !.stage = "normalized",
                            !.na = normalize_address(pure.a),
                            !.nb = normalize_address(pure.b)]
    /\ UNCHANGED <<cache, requests_made, cache_hits, now, last, run>>
    /\ UNCHANGED <<limiterVars, maintenanceVars>>

\* normalize_address on its own output
NormalizeAgain ==
    /\ pure.stage = "normalized"
    /\ pure' = [pure EXCEPT !.stage = "renormalized",
                            !.nna = normalize_address(pure.na)]
    /\ UNCHANGED <<cache, requests_made, cache_hits, now, last, run>>
    /\ UNCHANGED <<limiterVars, maintenanceVars>>

\* get_address_hash on both inputs
HashBoth ==
    /\ pure.stage = "renormalized"
    /\ pure' = [pure EXCEPT !.stage = "hashed",
                            !.ka = get_address_hash(pure.a),
                            !.kb = get_address_hash(pure.b)]
    /\ UNCHANGED <<cache, requests_made, cache_hits, now, last, run>>
    /\ UNCHANGED <<limiterVars, maintenanceVars>>

\* geocode(a, uid) when a and b are different texts with one normalized form
ResolveFirst ==
    /\ pure.stage = "hashed"
    /\ pure.a # pure.b
    /\ pure.na = pure.nb
    /\ \E uid \in Uids, resp \in Answers(cache, pure.a, FALSE, {}) :
          GeocodeCall(pure.a, uid, FALSE, resp, {})
    /\ pure' = [pure EXCEPT !.stage = "first", !.stored = last'.write_ret]
    /\ UNCHANGED now

\* then geocode(b, uid)
ResolveSecond ==
    /\ pure.stage = "first"
    /\ \E uid \in Uids, resp \in Answers(cache, pure.b, FALSE, {}) :
          GeocodeCall(pure.b, uid, FALSE, resp, {})
    /\ pure' = [pure EXCEPT !.stage = "second"]
    /\ UNCHANGED now

AddressNext == NormalizeBoth \/ NormalizeAgain \/ HashBoth \/ ResolveFirst \/ ResolveSecond

SpecAddress == AddressInit /\ [][AddressNext]_vars

(***************************************************************************)
(* CachedGeocoder._rate_limit, statement by statement, for one caller or    *)
(* for two threads sharing the geocoder.  Time is counted in ticks of the   *)
(* clock time.time() reads; the clock may advance between any two           *)
(* statements.                                                              *)
(***************************************************************************)
\* one second (the 1.0 of min_interval = 1.0 / self.rate_limit), in ticks
TicksPerSecond == 2

\* the values of rate_limit the geocoder is constructed with
RateLimits == {-1, 0, 1, 2}

Threads == {"t1", "t2"}

\* min_interval = 1.0 / self.rate_limit
min_interval(rate) == TicksPerSecond \div rate

\* a sleep that ends at once
WakeAtOnce(t, interval, elapsed) == t

\* time.sleep(min_interval - elapsed) started at t ends no earlier than this
wake_time(t, interval, elapsed) == t + (interval - elapsed)

\* a geocoder constructed some time after the epoch, used by one caller or by
\* two threads
RateInit ==
    /\ \E start \in {TicksPerSecond, TicksPerSecond + 1} : SessionAt(start)
    /\ NoMaintenance
    /\ pure = Idle
    /\ rate_limit \in RateLimits
    /\ last_request_time = 0
    /\ \E T \in {{"t1"}, Threads} :
          threads = [t \in T |-> [pc |-> "idle", wake |-> 0, slept |-> FALSE]]
    /\ acquired = <<>>

sessionVars == <<cache, requests_made, cache_hits, last, run, pure, purge, stats>>

\* the clock advances
Pass ==
    /\ now < MaxClock
    /\ now' = now + 1
    /\ UNCHANGED <<sessionVars, limiterVars>>

\* a caller enters _rate_limit
RateLimitEnter ==
    \E t \in DOMAIN threads :
      /\ threads[t].pc = "idle"
      /\ Len(acquired) + Cardinality({u \in DOMAIN threads : threads[u].pc # "idle"})
            < MaxAcquires
      /\ threads' = [threads EXCEPT ![t] = [pc |-> "check", wake |-> 0, slept |-> FALSE]]
      /\ UNCHANGED <<sessionVars, now, rate_limit, last_request_time, acquired>>

\* lines 30-33: the test of rate_limit, elapsed, and the decision to sleep
RateLimitCheck ==
    \E t \in DOMAIN threads :
      /\ threads[t].pc = "check"
      /\ threads' = [threads EXCEPT ![t] =
            IF rate_limit > 0
            THEN LET elapsed == now - last_request_time IN
                   IF elapsed < min_interval(rate_limit)
                   THEN [pc |-> "sleep",
                         wake |-> wake_time(now, min_interval(rate_limit), elapsed),
                         slept |-> TRUE]
                   ELSE [pc |-> "stamp", wake |-> 0, slept |-> FALSE]
            ELSE [pc |-> "stamp", wake |-> 0, slept |-> FALSE]]
      /\ UNCHANGED <<sessionVars, now, rate_limit, last_request_time, acquired>>

\* line 34: time.sleep returns once the time asked for has passed
RateLimitSleep ==
    \E t \in DOMAIN threads :
      /\ threads[t].pc = "sleep"
      /\ now >= threads[t].wake
      /\ threads' = [threads EXCEPT ![t].pc = "stamp"]
      /\ UNCHANGED <<sessionVars, now, rate_limit, last_request_time, acquired>>

\* line 35: self.last_request_time = time.time(), and the return
RateLimitStamp ==
    \E t \in DOMAIN threads :
      /\ threads[t].pc = "stamp"
      /\ last_request_time' = now
      /\ acquired' = Append(acquired, now)
      /\ threads' = [threads EXCEPT ![t].pc = "idle"]
      /\ UNCHANGED <<sessionVars, now, rate_limit>>

RateNext ==
    Pass \/ RateLimitEnter \/ RateLimitCheck \/ RateLimitSleep \/ RateLimitStamp

SpecRate == RateInit /\ [][RateNext]_vars

(***************************************************************************)
(* Two threads sharing one CachedGeocoder, each resolving the same address  *)
(* with geocode(address, uid), statement by statement: every Firestore call *)
(* is one step, and the read and the write of "counter += 1" are two steps. *)
(* A third caller looks the address up (app.py:834).                        *)
(***************************************************************************)
\* the address the threads resolve
SharedAddress == <<"t", "t">>

\* what the provider answers to the threads
WorkerResponses == {r \in Responses : r.status \in {"OK", "ZERO_RESULTS", "Timeout"}}

IdleThread == [pc |-> "idle", doc |-> None, tmp |-> 0, result |-> None, done |-> 0]

WorkersInit ==
    /\ InitSession
    /\ NoMaintenance
    /\ pure = Idle
    /\ rate_limit = DefaultRateLimit
    /\ last_request_time = 0
    /\ threads = [t \in Threads |-> IdleThread]
    /\ acquired = <<>>

\* geocode calls started so far
Started ==
    LET n(t) == threads[t].done + (IF threads[t].pc = "idle" THEN 0 ELSE 1)
    IN n("t1") + n("t2")

\* geocode calls completed so far
Completed == threads["t1"].done + threads["t2"].done

workerFrame == <<now, last, run, pure, rate_limit, acquired, purge, stats>>

\* geocode line 162-167: the address is not blank, the cache is consulted
WorkerEnter ==
    \E t \in Threads :
      /\ threads[t].pc = "idle"
      /\ Started < MaxResolves
      /\ StrippedOf(SharedAddress) # <<>>
      /\ threads' = [threads EXCEPT ![t].pc = "get", ![t].doc = None,
                                     ![t].result = None]
      /\ UNCHANGED <<cache, requests_made, cache_hits, last_request_time, workerFrame>>

\* address_cache.py:98-100: doc = document(address_hash).get(); doc.exists
WorkerGet ==
    \E t \in Threads :
      /\ threads[t].pc = "get"
      /\ threads' = [threads EXCEPT ![t] =
            IF HashOf(SharedAddress) \in DOMAIN cache
            THEN [@ EXCEPT !.pc = "update", !.doc = Some(cache[HashOf(SharedAddress)])]
            ELSE [@ EXCEPT !.pc = "count_request"]]
      /\ UNCHANGED <<cache, requests_made, cache_hits, last_request_time, workerFrame>>

\* address_cache.py:104-109: the usage update, return data.get("google_result")
WorkerUpdate ==
    \E t \in Threads :
      /\ threads[t].pc = "update"
      /\ cache[HashOf(SharedAddress)].usage_count <= MaxHits + MaxResolves
      /\ cache' = Put(cache, HashOf(SharedAddress),
                      UsageUpdate(cache[HashOf(SharedAddress)], now))
      /\ threads' = [threads EXCEPT ![t].pc = "count_hit",
                                     ![t].result = Some(threads[t].doc[1].google_result)]
      /\ UNCHANGED <<requests_made, cache_hits, last_request_time, workerFrame>>

\* geocoder.py:169, self.cache_hits += 1: the value is read
WorkerHitRead ==
    \E t \in Threads :
      /\ threads[t].pc = "count_hit"
      /\ threads' = [threads EXCEPT ![t].pc = "store_hit", ![t].tmp = cache_hits]
      /\ UNCHANGED <<cache, requests_made, cache_hits, last_request_time, workerFrame>>

\* geocoder.py:169-170, self.cache_hits += 1: the sum is stored; return cached
WorkerHitWrite ==
    \E t \in Threads :
      /\ threads[t].pc = "store_hit"
      /\ cache_hits' = threads[t].tmp + 1
      /\ threads' = [threads EXCEPT ![t].pc = "idle", ![t].done = @ + 1]
      /\ UNCHANGED <<cache, requests_made, last_request_time, workerFrame>>

\* geocoder.py:47-48: self._rate_limit(); self.requests_made += 1: the value is read
WorkerRequestRead ==
    \E t \in Threads :
      /\ threads[t].pc = "count_request"
      /\ last_request_time' = now
      /\ threads' = [threads EXCEPT ![t].pc = "store_request", ![t].tmp = requests_made]
      /\ UNCHANGED <<cache, requests_made, cache_hits, workerFrame>>

\* geocoder.py:48, self.requests_made += 1: the sum is stored
WorkerRequestWrite ==
    \E t \in Threads :
      /\ threads[t].pc = "store_request"
      /\ requests_made' = threads[t].tmp + 1
      /\ threads' = [threads EXCEPT ![t].pc = "request"]
      /\ UNCHANGED <<cache, cache_hits, last_request_time, workerFrame>>

\* geocoder.py:56-148 and 173-175: the request, its answer, "if result"
WorkerRequest ==
    \E t \in Threads, resp \in WorkerResponses :
      \E result \in {call_google_api(SharedAddress, resp)} :
        /\ threads[t].pc = "request"
        /\ threads' = [threads EXCEPT ![t] =
              IF result = None
              THEN [@ EXCEPT !.pc = "idle", !.result = None, !.done = @ + 1]
              ELSE [@ EXCEPT !.pc = "save", !.result = result]]
        /\ UNCHANGED <<cache, requests_made, cache_hits, last_request_time, workerFrame>>

\* geocoder.py:180-182: save_geocoding_result(address, result, uid); return result
WorkerSave ==
    \E t \in Threads, uid \in Uids :
      /\ threads[t].pc = "save"
      /\ cache' = save_geocoding_result(cache, SharedAddress, threads[t].result[1],
                                         uid, now, FALSE).cache
      /\ threads' = [threads EXCEPT ![t].pc = "idle", ![t].done = @ + 1]
      /\ UNCHANGED <<requests_made, cache_hits, last_request_time, workerFrame>>

\* a third caller's get_cached_geocoding(address) (app.py:834)
WorkerLookup ==
    \E l \in {get_cached_geocoding(cache, SharedAddress, now, FALSE, FALSE)} :
      /\ l.ret # None
      /\ \A k \in DOMAIN l.cache : l.cache[k].usage_count <= 1 + MaxHits + MaxResolves
      /\ cache' = l.cache
      /\ UNCHANGED <<requests_made, cache_hits, last_request_time, threads, workerFrame>>

WorkersNext ==
    \/ WorkerEnter \/ WorkerGet \/ WorkerUpdate \/ WorkerHitRead \/ WorkerHitWrite
    \/ WorkerRequestRead \/ WorkerRequestWrite \/ WorkerRequest \/ WorkerSave
    \/ WorkerLookup

SpecWorkers == WorkersInit /\ [][WorkersNext]_vars

(***************************************************************************)
(* AddressCacheManager.clear_cache, one loop iteration per step.  The       *)
(* documents are numbered in the order the query streams them and reduced   *)
(* to the field clear_cache reads, last_used; time is counted in days.      *)
(***************************************************************************)
\* "Firestore batch limit is 500": if count % 500 == 0
BatchLimit == 500

\* from datetime import datetime (address_cache.py:8): the module does not
\* import timedelta, the name clear_cache uses at line 292
timedelta_imported == FALSE

\* the sizes of the collection clear_cache is run on
PurgeSizes ==
    {0, 1, 2} \cup {k * BatchLimit + e : k \in 1..(MaxBatches - 1), e \in {0, 1}}

\* the day clear_cache runs on
PurgeDay == 2

\* last_used of document i, in days: every second document was used on day 0,
\* the others on day 1
PurgeDoc(i) == [last_used |-> i % 2]

\* the older_than_days arguments: None, or a number of days
PurgeArguments == {None, Some(1)}

\* clear_cache(older_than_days) is called on day PurgeDay on a collection of
\* n documents
PurgeInit ==
    /\ CountersAt(PurgeDay)
    /\ InitLimiter
    /\ pure = Idle
    /\ stats = [pc |-> "idle"]
    /\ \E n \in PurgeSizes, older_than_days \in PurgeArguments :
          /\ cache = [i \in 1..n |-> PurgeDoc(i)]
          /\ purge = [pc |-> "query", older_than_days |-> older_than_days,
                      before |-> n, docs |-> {}, seen |-> {}, batch |-> {},
                      count |-> 0, commits |-> <<>>, ret |-> None]

\* where("last_used", "<", cutoff_date) on the documents of c
OlderThan(c, cutoff_date) == {i \in DOMAIN c : c[i].last_used < cutoff_date}

\* document references deleted by a committed batch
Commit(c, batch) == [i \in DOMAIN c \ batch |-> c[i]]

\* except Exception: print(...); return 0
PurgeFailed == [purge EXCEPT !.pc = "done", !.ret = Some(0)]

\* lines 289-297: the query, docs = query.stream(), batch = self.db.batch(), count = 0
PurgeQuery ==
    /\ purge.pc = "query"
    /\ \E stream_raises \in BOOLEAN :
          purge' =
            IF purge.older_than_days \notin {None, Some(0)} /\ ~timedelta_imported
            THEN PurgeFailed
            ELSE IF stream_raises
            THEN PurgeFailed
            ELSE [purge EXCEPT
                    !.pc = "loop",
                    !.docs = IF purge.older_than_days \in {None, Some(0)}
                             THEN DOMAIN cache
                             ELSE OlderThan(cache, now - purge.older_than_days[1]),
                    !.seen = {},
                    !.batch = {},
                    !.count = 0]
    /\ UNCHANGED <<cache, requests_made, cache_hits, now, last, run, pure, limiterVars,
                   stats>>

\* lines 299-306: one iteration of "for doc in docs"
PurgeDelete ==
    /\ purge.pc = "loop"
    /\ purge.seen # purge.docs
    /\ \E commit_raises \in BOOLEAN :
        \E doc \in {CHOOSE i \in purge.docs \ purge.seen : TRUE} :
        \E batch \in {purge.batch \cup {doc}}, count \in {purge.count + 1} :
           IF count % BatchLimit = 0
           THEN IF commit_raises
                THEN /\ purge' = [PurgeFailed EXCEPT !.seen = @ \cup {doc},
                                                     !.batch = batch, !.count = count,
                                                     !.commits = Append(@,
                                                        [size |-> Cardinality(batch),
                                                         ok |-> FALSE])]
                     /\ cache' = cache
                ELSE /\ purge' = [purge EXCEPT !.seen = @ \cup {doc},
                                               !.batch = {}, !.count = count,
                                               !.commits = Append(@,
                                                  [size |-> Cardinality(batch),
                                                   ok |-> TRUE])]
                     /\ cache' = Commit(cache, batch)
           ELSE /\ ~commit_raises
                /\ purge' = [purge EXCEPT !.seen = @ \cup {doc},
                                          !.batch = batch, !.count = count]
                /\ cache' = cache
    /\ UNCHANGED <<requests_made, cache_hits, now, last, run, pure, limiterVars, stats>>

\* a return without the trailing commit of lines 308-309
PurgeFinishWithoutCommit ==
    /\ purge.pc = "loop"
    /\ purge.seen = purge.docs
    /\ purge' = [purge EXCEPT !.pc = "done", !.ret = Some(purge.count)]
    /\ cache' = cache
    /\ UNCHANGED <<requests_made, cache_hits, now, last, run, pure, limiterVars, stats>>

\* lines 308-312: the trailing commit, return count
PurgeFinish ==
    /\ purge.pc = "loop"
    /\ purge.seen = purge.docs
    /\ \E commit_raises \in BOOLEAN :
        IF purge.count % BatchLimit # 0
        THEN IF commit_raises
             THEN /\ purge' = [PurgeFailed EXCEPT
                                 !.commits = Append(@, [size |-> Cardinality(purge.batch),
                                                        ok |-> FALSE])]
                  /\ cache' = cache
             ELSE /\ purge' = [purge EXCEPT !.pc = "done", !.batch = {},
                                            !.commits = Append(@,
                                               [size |-> Cardinality(purge.batch),
                                                ok |-> TRUE]),
                                            !.ret = Some(purge.count)]
                  /\ cache' = Commit(cache, purge.batch)
        ELSE /\ ~commit_raises
             /\ purge' = [purge EXCEPT !.pc = "done", !.ret = Some(purge.count)]
             /\ cache' = cache
    /\ UNCHANGED <<requests_made, cache_hits, now, last, run, pure, limiterVars, stats>>

PurgeNext == PurgeQuery \/ PurgeDelete \/ PurgeFinish

SpecPurge == PurgeInit /\ [][PurgeNext]_vars

(***************************************************************************)
(* AddressCacheManager.get_cache_stats on collections of documents reduced  *)
(* to the fields it reads.  deduplication_rate is a number with one         *)
(* decimal; it is kept in tenths of a percent (600 is 60.0).                *)
(***************************************************************************)
StatsDocs ==
    [ google_result : [valid : BOOLEAN, partial_match : BOOLEAN],
      manual_override : BOOLEAN,
      usage_count : {1, 2, LargeUsage} ]

\* ten entries with a total usage of 25
ScenarioCollection ==
    [i \in 1..10 |->
        [ google_result |-> [valid |-> (i % 2 = 0), partial_match |-> FALSE],
          manual_override |-> FALSE,
          usage_count |-> IF i <= 5 THEN 1 ELSE 4 ]]

StatsCollections ==
    UNION {[1..n -> StatsDocs] : n \in 0..MaxDocs} \cup {ScenarioCollection}

\* total_usage += data.get("usage_count", 0), over the first n documents
RECURSIVE SumUsage(_, _)
SumUsage(c, n) ==
    IF n = 0 THEN 0 ELSE SumUsage(c, n - 1) + c[n].usage_count

\* a quotient cut to one decimal instead of rounded
truncate1(num, den) == {(num * 1000) \div den}

\* round(num / den * 100, 1) in tenths: the nearest tenth, and either
\* neighbour when the quotient lies half way between two tenths (the float
\* that is rounded is not exactly the quotient)
round1(num, den) ==
    LET q == (num * 1000) \div den
        r == (num * 1000) % den
    IN IF 2 * r < den THEN {q}
       ELSE IF 2 * r > den THEN {q + 1}
       ELSE {q, q + 1}

\* the dict of the except branch (address_cache.py:237-245)
StatsFailed ==
    [ total_addresses |-> 0, valid |-> 0, invalid |-> 0, partial_matches |-> 0,
      manual_overrides |-> 0, total_usage |-> 0, deduplication_rate |-> 0 ]

\* AddressCacheManager.get_cache_stats: the dicts it can return for collection c
get_cache_stats(c, stream_raises) ==
    IF stream_raises THEN {StatsFailed}
    ELSE LET total == Len(c)
             total_usage == SumUsage(c, Len(c))
         IN { [ total_addresses |-> total,
                valid |-> Cardinality({i \in DOMAIN c : c[i].google_result.valid}),
                invalid |-> Cardinality({i \in DOMAIN c : ~c[i].google_result.valid}),
                partial_matches |->
                    Cardinality({i \in DOMAIN c : c[i].google_result.partial_match}),
                manual_overrides |-> Cardinality({i \in DOMAIN c : c[i].manual_override}),
                total_usage |-> total_usage,
                deduplication_rate |-> rate ] :
              rate \in IF total_usage > 0
                       THEN round1(total_usage - total, total_usage)
                       ELSE {0} }

StatsInit ==
    /\ CountersAt(0)
    /\ InitLimiter
    /\ pure = Idle
    /\ purge = [pc |-> "idle"]
    /\ cache \in StatsCollections
    /\ stats = [pc |-> "call"]

\* one call of get_cache_stats (app.py:539)
GetCacheStats ==
    /\ stats.pc = "call"
    /\ \E stream_raises \in BOOLEAN :
        \E ret \in get_cache_stats(cache, stream_raises) :
          stats' = [pc |-> "done", raised |-> stream_raises, ret |-> ret]
    /\ UNCHANGED <<cache, requests_made, cache_hits, now, last, run, pure, limiterVars,
                   purge>>

StatsNext == GetCacheStats

SpecStats == StatsInit /\ [][StatsNext]_vars

(***************************************************************************)
(* AddressCacheManager.get_invalid_addresses on collections of documents    *)
(* reduced to the fields it reads.                                          *)
(***************************************************************************)
InvalidDocs ==
    [ google_result : [valid : BOOLEAN],
      original_address : {<<"t", "t">>, <<",">>},
      geocoded_at : {0},
      usage_count : {1, 2} ]

InvalidCollections == UNION {[1..n -> InvalidDocs] : n \in 0..MaxDocs}

\* the limit arguments: fewer than, as many as and more than the documents
Limits == {1, MaxDocs, DefaultLimit}

\* the dict appended for one streamed document (address_cache.py:268-272)
InvalidRecord(data) ==
    [ address |-> data.original_address,
      geocoded_at |-> data.geocoded_at,
      usage_count |-> data.usage_count ]

InvalidInit ==
    /\ CountersAt(0)
    /\ InitLimiter
    /\ pure = Idle
    /\ purge = [pc |-> "idle"]
    /\ cache \in InvalidCollections
    /\ \E limit \in Limits : stats = [pc |-> "query", limit |-> limit]

\* one call of get_invalid_addresses(limit): docs are the documents streamed,
\* ret the list returned, one record per streamed document
GetInvalidAddresses ==
    /\ stats.pc = "query"
    /\ \E stream_raises \in BOOLEAN :
        \E docs \in IF stream_raises THEN {{}}
                     ELSE get_invalid_addresses(cache, stats.limit) :
          stats' = [pc |-> "done", limit |-> stats.limit, raised |-> stream_raises,
                    docs |-> docs,
                    ret |-> [k \in docs |-> InvalidRecord(cache[k])]]
    /\ UNCHANGED <<cache, requests_made, cache_hits, now, last, run, pure, limiterVars,
                   purge>>

InvalidNext == GetInvalidAddresses

SpecInvalid == InvalidInit /\ [][InvalidNext]_vars

(***************************************************************************)
(* The batch runs: CustomerProcessor.process_customers (app.py:563),        *)
(* BookingProcessor.process_bookings and CachedGeocoder.geocode_batch, by   *)
(* one sequential caller.  A customer record is reduced to its             *)
(* PhysicalAddress, a booking record to the FROM and TO addresses           *)
(* extracted from its Notes, and an output row to its geocoding columns.    *)
(***************************************************************************)
\* a missing cell (float NaN), for which pd.notna is false
NaN == <<"NaN">>

BatchKinds == {"process_customers", "process_bookings", "geocode_batch"}

\* the PhysicalAddress cells and the addresses handed to geocode_batch
BatchAddresses == {NaN, <<>>, <<" ">>, <<"t", "t">>, <<",">>}

\* whether the Notes cell is there (pd.notna), and the texts that
\* extract_booking_addresses(row["Notes"]) finds in it: stripped, "" when absent
BookingRecords ==
    {[notes |-> FALSE, from |-> <<>>, to |-> <<>>]}
      \cup [notes : {TRUE}, from : {<<>>, <<"t", "t">>}, to : {<<>>, <<",">>}]

\* the inputs of one run of the given kind; geocode_batch takes a list of
\* address strings
BatchInputs(kind) ==
    LET D == IF kind = "process_bookings" THEN BookingRecords
             ELSE IF kind = "geocode_batch" THEN BatchAddresses \ {NaN}
             ELSE BatchAddresses
    IN UNION {[1..n -> D] : n \in 0..MaxRecords}

\* a guard that only asks whether the cell is there
NotMissing(cell) == cell # NaN

\* pd.notna(row["PhysicalAddress"]) and str(...).strip() is not empty
\* (customer_processor.py:88-90); address and address.strip() (geocoder.py:200)
HasAddress(cell) == cell # NaN /\ StrippedOf(cell) # <<>>

\* what the provider answers during a batch run
BatchResponses == {r \in Responses : r.status \in {"OK", "ZERO_RESULTS", "Timeout"}}

\* the geocoding columns as process_customers initialises them
\* (customer_processor.py:142-153)
DefaultFields ==
    [ GoogleAddress |-> <<>>, GoogleLat |-> None, GoogleLng |-> None,
      AddressValid |-> FALSE, AddressPartialMatch |-> FALSE, AddressHash |-> <<>> ]

\* the geocoding columns written from a result (customer_processor.py:94-105)
ResultFields(result, address) ==
    [ GoogleAddress |-> result.formatted_address,
      GoogleLat |-> result.lat, GoogleLng |-> result.lng,
      AddressValid |-> result.valid,
      AddressPartialMatch |-> result.partial_match,
      AddressHash |-> HashOf(address) ]

\* the outcomes of self.geocoder.geocode(address, uid, force_recheck=False)
\* from collection c and counters rm, ch, over the provider's answers and the
\* Firestore calls that raise
Resolutions(c, rm, ch, address, uid, t) ==
    { geocode(c, rm, ch, address, uid, FALSE, x[1], t, x[2]) :
        x \in { y \in (BatchResponses \cup {NoCall}) \X SUBSET {"get", "update", "write"} :
                 \E g \in {geocode(c, rm, ch, address, uid, FALSE, y[1], t, y[2])} :
                    /\ g.called <=> (y[1] # NoCall)
                    /\ y[2] \subseteq g.calls } }

\* the observation of one geocode call made for record i
Resolved(i, slot, address, force_recheck, g) ==
    [ record |-> i, slot |-> slot, address |-> address, force_recheck |-> force_recheck,
      ret |-> g.ret, hit |-> g.hit, called |-> g.called, calls |-> g.calls ]

\* a batch run that has not been started
BatchRun(kind, records) ==
    [ pc |-> "start", kind |-> kind, records |-> records, i |-> 0,
      out |-> <<>>, results |-> <<>>, resolves |-> <<>>, ret |-> None ]

BatchInit ==
    /\ InitSession
    /\ NoMaintenance
    /\ pure = Idle
    /\ rate_limit = DefaultRateLimit
    /\ last_request_time = 0
    /\ acquired = <<>>
    /\ \E kind \in BatchKinds :
         \E records \in BatchInputs(kind) :
           threads = [main |-> BatchRun(kind, records)]

batchFrame == <<now, last, run, pure, rate_limit, acquired, purge, stats>>

\* the caller of the batch run
Main == threads["main"]

\* process_customers / process_bookings up to the loop: an empty frame is
\* returned as it is, otherwise the new columns get their defaults;
\* geocode_batch: results = {}
BatchStart ==
    /\ Main.pc = "start"
    /\ threads' = [threads EXCEPT
          !["main"].pc = IF Main.records = <<>> THEN "return" ELSE "loop",
          !["main"].i = 1,
          !["main"].out = IF Main.kind = "geocode_batch" THEN <<>>
                         ELSE [k \in DOMAIN Main.records |->
                                 IF Main.kind = "process_bookings"
                                 THEN [from |-> DefaultFields, to |-> DefaultFields]
                                 ELSE DefaultFields]]
    /\ UNCHANGED <<cache, requests_made, cache_hits, last_request_time, batchFrame>>

\* a loop that ends at the first record whose geocode call returned None
AbortOnNone(m) ==
    IF /\ m.resolves # <<>>
       /\ m.resolves[Len(m.resolves)].record = m.i
       /\ m.resolves[Len(m.resolves)].ret = None
    THEN [m EXCEPT !.i = m.i + 1, !.pc = "return"]
    ELSE [m EXCEPT !.i = m.i + 1,
                   !.pc = IF m.i = Len(m.records) THEN "return" ELSE "loop"]

\* the loop moves to the next record, or ends
Advance(m) ==
    [m EXCEPT !.i = m.i + 1,
              !.pc = IF m.i = Len(m.records) THEN "return" ELSE "loop"]

\* one iteration of the loop of process_customers: process_single_customer
ProcessSingleCustomer ==
    /\ Main.pc = "loop" /\ Main.kind = "process_customers"
    /\ LET cell == Main.records[Main.i]
           address == IF cell = NaN THEN <<>> ELSE StrippedOf(cell)
       IN IF HasAddress(cell)
          THEN \E g \in Resolutions(cache, requests_made, cache_hits, address, "u1", now) :
                 /\ cache' = g.cache
                 /\ requests_made' = g.requests_made
                 /\ cache_hits' = g.cache_hits
                 /\ last_request_time' = IF g.called THEN now ELSE last_request_time
                 /\ threads' = [threads EXCEPT !["main"] = Advance(
                      [Main EXCEPT
                         !.out[Main.i] = IF g.ret # None
                                         THEN ResultFields(g.ret[1], address) ELSE @,
                         !.resolves = Append(@, Resolved(Main.i, "address", address,
                                                         FALSE, g))])]
          ELSE /\ threads' = [threads EXCEPT !["main"] = Advance(Main)]
               /\ UNCHANGED <<cache, requests_made, cache_hits, last_request_time>>
    /\ UNCHANGED batchFrame

\* one iteration of the loop of process_bookings: process_single_booking,
\* which resolves the FROM address and then the TO address
ProcessSingleBooking ==
    /\ Main.pc = "loop" /\ Main.kind = "process_bookings"
    /\ LET cell == Main.records[Main.i] IN
       IF ~cell.notes
       THEN /\ threads' = [threads EXCEPT !["main"] = Advance(Main)]
            /\ UNCHANGED <<cache, requests_made, cache_hits, last_request_time>>
       ELSE \E f \in IF cell.from # <<>>
                     THEN {Some(g) : g \in Resolutions(cache, requests_made, cache_hits,
                                                       cell.from, "u1", now)}
                     ELSE {None} :
            LET c1 == IF f = None THEN cache ELSE f[1].cache
                rm1 == IF f = None THEN requests_made ELSE f[1].requests_made
                ch1 == IF f = None THEN cache_hits ELSE f[1].cache_hits
            IN
            \E t \in IF cell.to # <<>>
                     THEN {Some(g) : g \in Resolutions(c1, rm1, ch1, cell.to, "u1", now)}
                     ELSE {None} :
              /\ cache' = IF t = None THEN c1 ELSE t[1].cache
              /\ requests_made' = IF t = None THEN rm1 ELSE t[1].requests_made
              /\ cache_hits' = IF t = None THEN ch1 ELSE t[1].cache_hits
              /\ last_request_time' =
                    IF (f # None /\ f[1].called) \/ (t # None /\ t[1].called)
                    THEN now ELSE last_request_time
              /\ threads' = [threads EXCEPT !["main"] = Advance(
                   [Main EXCEPT
                      !.out[Main.i].from = IF f # None /\ f[1].ret # None
                                           THEN ResultFields(f[1].ret[1], cell.from) ELSE @,
                      !.out[Main.i].to = IF t # None /\ t[1].ret # None
                                         THEN ResultFields(t[1].ret[1], cell.to) ELSE @,
                      !.resolves = @
                         \o (IF f = None THEN <<>>
                             ELSE <<Resolved(Main.i, "from", cell.from, FALSE, f[1])>>)
                         \o (IF t = None THEN <<>>
                             ELSE <<Resolved(Main.i, "to", cell.to, FALSE, t[1])>>)])]
    /\ UNCHANGED batchFrame

\* one iteration of the loop of geocode_batch: results[address] = result
GeocodeBatchStep ==
    /\ Main.pc = "loop" /\ Main.kind = "geocode_batch"
    /\ LET address == Main.records[Main.i] IN
       IF HasAddress(address)
       THEN \E g \in Resolutions(cache, requests_made, cache_hits, address, "u1", now) :
              /\ cache' = g.cache
              /\ requests_made' = g.requests_made
              /\ cache_hits' = g.cache_hits
              /\ last_request_time' = IF g.called THEN now ELSE last_request_time
              /\ threads' = [threads EXCEPT !["main"] = Advance(
                   [Main EXCEPT
                      !.results = Put(@, address, g.ret),
                      !.resolves = Append(@, Resolved(Main.i, "address", address,
                                                      FALSE, g))])]
       ELSE /\ threads' = [threads EXCEPT !["main"] = Advance(Main)]
            /\ UNCHANGED <<cache, requests_made, cache_hits, last_request_time>>
    /\ UNCHANGED batchFrame

\* the run returns the frame (customer_processor.py:179) or the dict
\* (geocoder.py:207)
BatchReturn ==
    /\ Main.pc = "return"
    /\ threads' = [threads EXCEPT
          !["main"].pc = "done",
          !["main"].ret = IF Main.kind = "geocode_batch" THEN Some(Main.results)
                         ELSE Some(Main.out)]
    /\ UNCHANGED <<cache, requests_made, cache_hits, last_request_time, batchFrame>>

BatchNext ==
    \/ BatchStart
    \/ ProcessSingleCustomer
    \/ ProcessSingleBooking
    \/ GeocodeBatchStep
    \/ BatchReturn

SpecBatch == BatchInit /\ [][BatchNext]_vars

(***************************************************************************)
(* CachedGeocoder.geocode by one sequential caller, one step per            *)
(* interaction with the cache, the rate limiter and the provider.  trace    *)
(* lists the interactions of the call in progress, in order.                *)
(***************************************************************************)
StepAddresses == {<<"t", "t">>, <<",">>, <<" ">>}

\* rm0 and ch0 are the counters as the call in progress found them, resolved
\* the number of calls completed for an address that is not blank
IdleCall ==
    [ pc |-> "idle", address |-> <<>>, force_recheck |-> FALSE, trace |-> <<>>,
      result |-> None, hit |-> FALSE, done |-> 0, rm0 |-> 0, ch0 |-> 0,
      resolved |-> 0 ]

\* get_stats that takes the provider calls alone for the total
GetStatsRequestsOnly(rm, ch) ==
    [ api_requests |-> rm, cache_hits |-> ch, total_lookups |-> rm,
      cache_hit_rate |-> IF rm > 0 THEN round1(ch, rm) ELSE {0} ]

\* CachedGeocoder.get_stats (estimated_cost left out); cache_hit_rate is the
\* set of values round(cache_rate, 1) can give, in tenths of a percent
get_stats(rm, ch) ==
    [ api_requests |-> rm, cache_hits |-> ch, total_lookups |-> rm + ch,
      cache_hit_rate |-> IF rm + ch > 0 THEN round1(ch, rm + ch) ELSE {0} ]

StepsInit ==
    /\ InitSession
    /\ NoMaintenance
    /\ pure = Idle
    /\ rate_limit = DefaultRateLimit
    /\ last_request_time = 0
    /\ acquired = <<>>
    /\ threads = [main |-> IdleCall]

stepFrame == <<now, last, run, pure, rate_limit, purge, stats>>

\* a call that goes to the provider without passing the rate limiter
SkipLimiter == "count"

\* _call_google_api begins with self._rate_limit() (geocoder.py:47)
CallGoogleApiEntry == "acquire"

\* the call returns: the caller is outside geocode again
Return(m, result) ==
    [m EXCEPT !.pc = "idle", !.result = result, !.done = @ + 1,
              !.resolved = IF StrippedOf(m.address) = <<>> THEN @ ELSE @ + 1]

\* geocode is entered (geocoder.py:162-166, 173)
StepEnter ==
    /\ Main.pc = "idle"
    /\ Main.done < MaxResolves
    /\ \E address \in StepAddresses, force_recheck \in BOOLEAN :
         threads' = [threads EXCEPT !["main"] =
            LET m == [Main EXCEPT !.address = address, !.force_recheck = force_recheck,
                                  !.trace = <<>>, !.result = None, !.hit = FALSE,
                                  !.rm0 = requests_made, !.ch0 = cache_hits]
            IN IF StrippedOf(address) = <<>> THEN Return(m, None)
               ELSE IF force_recheck THEN [m EXCEPT !.pc = CallGoogleApiEntry]
               ELSE [m EXCEPT !.pc = "lookup"]]
    /\ UNCHANGED <<cache, requests_made, cache_hits, last_request_time, acquired,
                   stepFrame>>

\* cached = self.cache_manager.get_cached_geocoding(address); if cached
\* (geocoder.py:167-168)
StepLookup ==
    /\ Main.pc = "lookup"
    /\ \E raises \in SUBSET {"get", "update"} :
        \E l \in {get_cached_geocoding(cache, Main.address, now, "get" \in raises,
                                       "update" \in raises)} :
          /\ raises \subseteq l.calls
          /\ cache' = l.cache
          /\ threads' = [threads EXCEPT !["main"] =
                [Main EXCEPT !.trace = IF l.calls = {} THEN @ ELSE Append(@, "lookup"),
                             !.result = l.ret,
                             !.pc = IF l.ret # None THEN "hit" ELSE CallGoogleApiEntry]]
    /\ UNCHANGED <<requests_made, cache_hits, last_request_time, acquired, stepFrame>>

\* self.cache_hits += 1; return cached (geocoder.py:169-170)
StepHit ==
    /\ Main.pc = "hit"
    /\ cache_hits' = cache_hits + 1
    /\ threads' = [threads EXCEPT !["main"] = Return([Main EXCEPT !.hit = TRUE], Main.result)]
    /\ UNCHANGED <<cache, requests_made, last_request_time, acquired, stepFrame>>

\* self._rate_limit() (geocoder.py:47): at the default rate the interval is
\* shorter than a tick, the call stores the clock reading and returns
StepAcquire ==
    /\ Main.pc = "acquire"
    /\ last_request_time' = now
    /\ acquired' = Append(acquired, now)
    /\ threads' = [threads EXCEPT !["main"].trace = Append(@, "acquire"),
                                  !["main"].pc = "count"]
    /\ UNCHANGED <<cache, requests_made, cache_hits, stepFrame>>

\* self.requests_made += 1 (geocoder.py:48)
StepCount ==
    /\ Main.pc = "count"
    /\ requests_made' = requests_made + 1
    /\ threads' = [threads EXCEPT !["main"].pc = "request"]
    /\ UNCHANGED <<cache, cache_hits, last_request_time, acquired, stepFrame>>

\* requests.get(...) and the parsing of the answer (geocoder.py:56-148);
\* "if result" (geocoder.py:175)
StepRequest ==
    /\ Main.pc = "request"
    /\ \E resp \in BatchResponses :
        \E result \in {call_google_api(Main.address, resp)} :
          threads' = [threads EXCEPT !["main"] =
             LET m == [Main EXCEPT !.trace = Append(@, "provider_call")]
             IN IF result = None THEN Return(m, None)
                ELSE [m EXCEPT !.pc = "write", !.result = result]]
    /\ UNCHANGED <<cache, requests_made, cache_hits, last_request_time, acquired,
                   stepFrame>>

\* manual_recheck or save_geocoding_result; return result (geocoder.py:177-182)
StepWrite ==
    /\ Main.pc = "write"
    /\ \E write_raises \in BOOLEAN, uid \in Uids :
        \E w \in {IF Main.force_recheck
                   THEN manual_recheck(cache, Main.address, Main.result[1], uid, now,
                                       write_raises)
                   ELSE save_geocoding_result(cache, Main.address, Main.result[1], uid,
                                              now, write_raises)} :
          /\ write_raises => w.calls # {}
          /\ cache' = w.cache
          /\ threads' = [threads EXCEPT !["main"] =
                Return([Main EXCEPT !.trace = IF w.calls = {} THEN @
                                              ELSE Append(@, "write")],
                       Main.result)]
    /\ UNCHANGED <<requests_made, cache_hits, last_request_time, acquired, stepFrame>>

\* the caller asks for the session statistics between two calls
\* (customer_processor.py:162, app.py:569)
StepStats ==
    /\ Main.pc = "idle"
    /\ \E g \in {get_stats(requests_made, cache_hits)} :
        \E rate \in g.cache_hit_rate :
          stats' = [pc |-> "session", ret |-> [g EXCEPT !.cache_hit_rate = rate]]
    /\ UNCHANGED <<cache, requests_made, cache_hits, last_request_time, acquired,
                   threads, now, last, run, pure, rate_limit, purge>>

StepsNext ==
    \/ StepEnter \/ StepLookup \/ StepHit \/ StepAcquire \/ StepCount
    \/ StepRequest \/ StepWrite \/ StepStats

SpecSteps == StepsInit /\ [][StepsNext]_vars

(***************************************************************************)
(* The parsing of result["address_components"] in _call_google_api          *)
(* (geocoder.py:63-90), on the components of the first result of an OK      *)
(* answer.                                                                  *)
(***************************************************************************)
\* the types lists the provider gives to the components of an address
ComponentTypes ==
    { {"street_number"}, {"route"}, {"locality", "political"},
      {"political", "sublocality", "sublocality_level_1"},
      {"administrative_area_level_1", "political"},
      {"administrative_area_level_2", "political"},
      {"postal_code"}, {"country", "political"} }

AddressComponents == [types : ComponentTypes, long_name : {"a", "b"}]

\* components = {"street_number": "", ...} (geocoder.py:64-71)
NoComponents ==
    [ street_number |-> "", street_name |-> "", suburb |-> "", state |-> "",
      postcode |-> "", country |-> "" ]

\* a loop body in which the first suburb found stays, locality or not
ParseComponentFirstWins(components, comp) ==
    IF "street_number" \in comp.types
    THEN [components EXCEPT !.street_number = comp.long_name]
    ELSE IF "route" \in comp.types
    THEN [components EXCEPT !.street_name = comp.long_name]
    ELSE IF ("locality" \in comp.types \/ "sublocality" \in comp.types)
            /\ components.suburb = ""
    THEN [components EXCEPT !.suburb = comp.long_name]
    ELSE IF "administrative_area_level_1" \in comp.types
    THEN [components EXCEPT !.state = comp.long_name]
    ELSE IF "postal_code" \in comp.types
    THEN [components EXCEPT !.postcode = comp.long_name]
    ELSE IF "country" \in comp.types
    THEN [components EXCEPT !.country = comp.long_name]
    ELSE components

\* the body of the loop over the components (geocoder.py:74-90)
parse_component(components, comp) ==
    IF "street_number" \in comp.types
    THEN [components EXCEPT !.street_number = comp.long_name]
    ELSE IF "route" \in comp.types
    THEN [components EXCEPT !.street_name = comp.long_name]
    ELSE IF "locality" \in comp.types
    THEN [components EXCEPT !.suburb = comp.long_name]
    ELSE IF "sublocality" \in comp.types /\ components.suburb = ""
    THEN [components EXCEPT !.suburb = comp.long_name]
    ELSE IF "administrative_area_level_1" \in comp.types
    THEN [components EXCEPT !.state = comp.long_name]
    ELSE IF "postal_code" \in comp.types
    THEN [components EXCEPT !.postcode = comp.long_name]
    ELSE IF "country" \in comp.types
    THEN [components EXCEPT !.country = comp.long_name]
    ELSE components

\* for comp in result["address_components"], over the first n components
RECURSIVE parse_components(_, _)
parse_components(address_components, n) ==
    IF n = 0 THEN NoComponents
    ELSE parse_component(parse_components(address_components, n - 1),
                         address_components[n])

ParseInit ==
    /\ InitSession
    /\ InitLimiter
    /\ NoMaintenance
    /\ \E n \in 0..MaxComponents :
         \E address_components \in [1..n -> AddressComponents] :
           pure = [stage |-> "response", address_components |-> address_components,
                   components |-> NoComponents]

\* the components of the answer are parsed
ParseResponse ==
    /\ pure.stage = "response"
    /\ pure' = [pure EXCEPT
                  !.stage = "parsed",
                  !.components = parse_components(pure.address_components,
                                                  Len(pure.address_components))]
    /\ UNCHANGED <<cache, requests_made, cache_hits, now, last, run>>
    /\ UNCHANGED <<limiterVars, maintenanceVars>>

ParseNext == ParseResponse

SpecParse == ParseInit /\ [][ParseNext]_vars

(***************************************************************************)
(* Properties.  A step of the caller is told from the passing of time by    *)
(* the clock standing still; last' then describes the call just made.       *)
(***************************************************************************)
StepIs(op) == now' = now /\ last'.op = op

\* C1: from an empty cache, with the store available and no provider error, N > 1
\* sequential non-forced resolves of one address make exactly 1 provider call
\* and N - 1 cache hits.
C1_OneProviderCallPerAddress ==
    (run.clean /\ run.n > 1) => (requests_made = 1 /\ cache_hits = run.n - 1)

\* C2: a non-forced resolve whose provider call ends in an error returns None,
\* leaves the collection as it was (no entry is created) and counts one
\* provider call; the next resolve of that address, which had no store failure
\* to hide an entry, calls the provider again.
C2_ProviderErrorNotCached ==
    /\ [][(StepIs("geocode") /\ last'.outcome = "error" /\ ~last'.force_recheck)
            => /\ last'.ret = None
               /\ cache' = cache
               /\ requests_made' = requests_made + 1
               /\ cache_hits' = cache_hits]_vars
    /\ [][(/\ last.op = "geocode" /\ last.outcome = "error"
           /\ ~last.force_recheck /\ ~last.store_error
           /\ StepIs("geocode") /\ last'.address = last.address)
            => /\ requests_made' = requests_made + 1
               /\ last'.outcome # "-"]_vars

C2_Witness ==
    /\ last.op = "geocode" /\ last.outcome = "error" /\ ~last.force_recheck
    /\ ~last.store_error /\ last.ret = None
    /\ requests_made = 2 /\ DOMAIN cache = {}

\* C3: when the provider answers ZERO_RESULTS (store available), the resolve
\* returns and stores a result with valid = FALSE, an error reason and no
\* lat/lng; get_invalid_addresses() returns the entry; the next non-forced
\* resolve of that address is a cache hit without a provider call.
C3_NotFoundStored ==
    /\ [][(StepIs("geocode") /\ last'.outcome = "ZERO_RESULTS" /\ ~last'.store_error)
            => /\ last'.ret # None
               /\ last'.ret[1].valid = FALSE
               /\ last'.ret[1].error # None
               /\ last'.ret[1].lat = None /\ last'.ret[1].lng = None
               /\ HashOf(last'.address) \in DOMAIN cache'
               /\ cache'[HashOf(last'.address)].google_result = last'.ret[1]
               /\ \A S \in get_invalid_addresses(cache', DefaultLimit) :
                      HashOf(last'.address) \in S]_vars
    /\ [][(/\ last.op = "geocode" /\ last.outcome = "ZERO_RESULTS" /\ ~last.store_error
           /\ StepIs("geocode") /\ last'.address = last.address
           /\ ~last'.force_recheck /\ ~last'.store_error)
            => (last'.hit /\ requests_made' = requests_made)]_vars

\* C4: a resolve with force_recheck = TRUE does not consult the cache and always
\* calls the provider; when the provider returns a result (store available), the
\* entry of the address afterwards holds that result with manual_override = TRUE.
C4_ForcedRecheckOverrides ==
    [][(StepIs("geocode") /\ last'.force_recheck /\ StrippedOf(last'.address) # <<>>)
        => /\ requests_made' = requests_made + 1
           /\ cache_hits' = cache_hits
           /\ ~last'.hit
           /\ (last'.ret # None /\ ~last'.store_error)
                => /\ HashOf(last'.address) \in DOMAIN cache'
                   /\ cache'[HashOf(last'.address)].google_result = last'.ret[1]
                   /\ cache'[HashOf(last'.address)].manual_override]_vars

\* C5: no non-forced resolve changes the result of an entry that has
\* manual_override = TRUE or sets manual_override back to FALSE, also when a
\* cache read or the usage update fails and the lookup counts as a miss.
C5_OverrideSurvivesLookups ==
    [][(StepIs("geocode") /\ ~last'.force_recheck)
        => \A k \in DOMAIN cache :
              cache[k].manual_override
                => /\ k \in DOMAIN cache'
                   /\ cache'[k].manual_override
                   /\ cache'[k].google_result = cache[k].google_result]_vars

\* C6: save_geocoding_result on a key without an entry creates one with
\* usage_count = 1 and manual_override = FALSE; on a key with an entry it leaves
\* usage_count and geocoded_at as they were.
C6_StoreKeepsUsageAndCreation ==
    [][(StepIs("geocode") /\ last'.write = "save_geocoding_result"
                          /\ last'.write_ret # <<>>)
        => IF last'.write_ret \in DOMAIN cache
           THEN /\ cache'[last'.write_ret].usage_count = cache[last'.write_ret].usage_count
                /\ cache'[last'.write_ret].geocoded_at = cache[last'.write_ret].geocoded_at
           ELSE /\ last'.write_ret \in DOMAIN cache'
                /\ cache'[last'.write_ret].usage_count = 1
                /\ cache'[last'.write_ret].manual_override = FALSE]_vars

\* C7: for an address with a non-empty key, with the store available and whether
\* or not an entry exists, manual_recheck returns the key and leaves an entry
\* there with the given result, manual_override = TRUE and override_at /
\* override_by_uid recorded.
C7_ManualRecheckAlwaysWrites ==
    [][(StepIs("geocode") /\ last'.write = "manual_recheck" /\ ~last'.store_error
                          /\ HashOf(last'.address) # <<>>)
        => /\ last'.write_ret = HashOf(last'.address)
           /\ HashOf(last'.address) \in DOMAIN cache'
           /\ cache'[HashOf(last'.address)].google_result = last'.ret[1]
           /\ cache'[HashOf(last'.address)].manual_override
           /\ cache'[HashOf(last'.address)].override_at = Some(now)
           /\ cache'[HashOf(last'.address)].override_by_uid # None]_vars

\* C8: a lookup that hits adds exactly 1 to the entry's usage_count, sets
\* last_used, returns the stored result and leaves the result, manual_override,
\* geocoded_at and every other entry as they were; a lookup that misses returns
\* None and changes nothing; so usage_count >= 1 always, and after a fresh
\* resolve and k hits usage_count = 1 + k.
C8_HitCountsUsage ==
    /\ [][(now' = now /\ last'.hit)
            => /\ HashOf(last'.address) \in DOMAIN cache
               /\ DOMAIN cache' = DOMAIN cache
               /\ cache'[HashOf(last'.address)].usage_count
                    = cache[HashOf(last'.address)].usage_count + 1
               /\ cache'[HashOf(last'.address)].last_used = now
               /\ last'.ret = Some(cache[HashOf(last'.address)].google_result)
               /\ cache'[HashOf(last'.address)]
                    = [cache[HashOf(last'.address)] EXCEPT
                         !.usage_count = cache'[HashOf(last'.address)].usage_count,
                         !.last_used = now]
               /\ \A k \in DOMAIN cache \ {HashOf(last'.address)} : cache'[k] = cache[k]]_vars
    /\ [][(StepIs("lookup") /\ ~last'.hit)
            => (last'.ret = None /\ cache' = cache)]_vars
    /\ [](\A k \in DOMAIN cache : cache[k].usage_count >= 1)
    /\ []((run.clean /\ run.n >= 1 /\ HashOf(run.address) # <<>>)
            => /\ HashOf(run.address) \in DOMAIN cache
               /\ cache[HashOf(run.address)].usage_count = run.n)

C8_Witness ==
    /\ last.op = "lookup" /\ last.hit
    /\ Cardinality(DOMAIN cache) = 2
    /\ cache[HashOf(last.address)].usage_count = 2
    /\ cache[HashOf(last.address)].last_used > cache[HashOf(last.address)].geocoded_at

\* C9: two raw addresses with one normalized form have one key, and the key is
\* empty exactly when the normalized form is; so once one of two such
\* addresses is resolved and stored, a non-forced resolve of the other is a
\* cache hit without a provider call.
C9_NearDuplicatesShareKey ==
    /\ pure.stage \in {"hashed", "first", "second"}
        => /\ (pure.na = pure.nb) => (pure.ka = pure.kb)
           /\ (pure.ka = <<>>) <=> (pure.na = <<>>)
           /\ (pure.kb = <<>>) <=> (pure.nb = <<>>)
    /\ (pure.stage = "second" /\ pure.stored # <<>>)
        => /\ last.hit
           /\ last.address = pure.b
           /\ requests_made = 1
           /\ cache_hits = 1

C9_Witness ==
    /\ pure.stage = "second" /\ pure.stored # <<>>
    /\ pure.a = <<"S", "t", ",">> /\ pure.b = <<"s", "t">>
    /\ last.hit /\ requests_made = 1

\* C10: normalize_address is idempotent: normalizing a normalized string gives
\* the same string.
C10_NormalizeIdempotent ==
    pure.stage \in {"renormalized", "hashed", "first", "second"} => pure.nna = pure.na

C10_Witness ==
    /\ pure.stage = "renormalized"
    /\ pure.a = <<"S", "t", ",">>
    /\ pure.na = <<"s", "t", "r", "e", "e", "t">>
    /\ pure.nna = pure.na

\* C11: in every reachable state, every result stored in the collection (by
\* save_geocoding_result or manual_recheck) has valid = TRUE exactly when lat and
\* lng are both present.
C11_ValidIffCoordinates ==
    \A k \in DOMAIN cache :
        cache[k].google_result.valid
            <=> (cache[k].google_result.lat # None /\ cache[k].google_result.lng # None)

C11_Witness ==
    /\ \E k \in DOMAIN cache : cache[k].google_result.valid /\ cache[k].manual_override
    /\ \E k \in DOMAIN cache : ~cache[k].google_result.valid /\ ~cache[k].manual_override

\* C16: when a Firestore call fails, get_cached_geocoding returns None like a
\* miss and changes nothing, and the write of a resolve returns the empty key
\* and changes nothing; a non-forced resolve whose cache read failed is not a
\* hit, calls the provider, counts the call and returns the provider's result
\* (None on a provider error), so the resolve completes with a return value.
C16_StoreFailureDegrades ==
    /\ [][(StepIs("lookup") /\ last'.raises # {})
            => (last'.ret = None /\ cache' = cache)]_vars
    /\ [][(StepIs("geocode") /\ "write" \in last'.raises)
            => /\ last'.write_ret = <<>>
               /\ cache' = cache
               /\ last'.ret # None]_vars
    /\ [][(StepIs("geocode") /\ last'.raises \cap {"get", "update"} # {})
            => /\ ~last'.hit
               /\ cache_hits' = cache_hits
               /\ last'.outcome # "-"
               /\ requests_made' = requests_made + 1
               /\ (last'.outcome = "error") <=> (last'.ret = None)
               /\ (last'.outcome = "OK") => last'.ret[1].valid
               /\ (last'.outcome = "ZERO_RESULTS") => ~last'.ret[1].valid]_vars

C16_Witness ==
    /\ last.op = "geocode" /\ last.raises = {"get", "write"}
    /\ last.ret # None /\ last.write_ret = <<>>
    /\ requests_made = 2 /\ Cardinality(DOMAIN cache) = 1

\* C17: a resolve of an empty or whitespace-only address, forced or not,
\* returns None and changes nothing: no Firestore call, no call of
\* _call_google_api (so no _rate_limit and no request), and requests_made and
\* cache_hits keep their values.
C17_BlankAddressIsNoOp ==
    [][(StepIs("geocode") /\ last'.address \in {<<>>, <<" ">>})
        => /\ last'.ret = None
           /\ cache' = cache
           /\ last'.calls = {}
           /\ last'.write = "none"
           /\ last'.outcome = "-"
           /\ requests_made' = requests_made
           /\ cache_hits' = cache_hits]_vars

C17_Witness ==
    /\ last.op = "geocode" /\ last.address = <<" ">> /\ last.ret = None
    /\ requests_made = 1 /\ cache_hits = 1 /\ Cardinality(DOMAIN cache) = 1

\* C12: with rate_limit > 0 and a single sequential caller, any two consecutive
\* returns of _rate_limit (the instant of a return being the clock reading its
\* last statement stores) are at least 1 / rate_limit seconds apart; with
\* rate_limit <= 0 _rate_limit never sleeps.
C12_SequentialAcquiresSpaced ==
    /\ (DOMAIN threads = {"t1"} /\ rate_limit > 0)
         => \A i \in 1..(Len(acquired) - 1) :
               (acquired[i + 1] - acquired[i]) * rate_limit >= TicksPerSecond
    /\ rate_limit <= 0
         => \A t \in DOMAIN threads : threads[t].pc # "sleep" /\ ~threads[t].slept

C12_Witness ==
    /\ DOMAIN threads = {"t1"} /\ rate_limit = 1
    /\ Len(acquired) = 3
    /\ acquired[2] - acquired[1] = TicksPerSecond
    /\ threads["t1"].slept

\* C13: when two or more threads share one geocoder, no two returns of
\* _rate_limit are less than 1 / rate_limit seconds apart, in every interleaving.
C13_ConcurrentAcquiresSpaced ==
    rate_limit > 0
        => \A i \in 1..(Len(acquired) - 1) :
              (acquired[i + 1] - acquired[i]) * rate_limit >= TicksPerSecond

\* C14: when two threads resolve the same not-yet-cached address concurrently,
\* in every interleaving (also with a third caller's lookup hitting the entry
\* between the two stores) a store on the existing entry does not lower its
\* usage_count, and exactly one well-formed entry is left for the key.
C14_SecondStoreKeepsUsage ==
    [][\A t \in Threads :
        (/\ threads[t].pc = "save" /\ threads'[t].pc = "idle"
         /\ HashOf(SharedAddress) \in DOMAIN cache)
          => /\ DOMAIN cache' = {HashOf(SharedAddress)}
             /\ cache'[HashOf(SharedAddress)].usage_count
                  >= cache[HashOf(SharedAddress)].usage_count
             /\ cache'[HashOf(SharedAddress)].usage_count >= 1
             /\ cache'[HashOf(SharedAddress)].google_result = threads[t].result[1]]_vars

\* C15: when threads share one geocoder no increment of requests_made or
\* cache_hits is lost: once every started resolve (all of a non-blank address)
\* has completed, requests_made + cache_hits is the number of resolves.
C15_NoLostIncrement ==
    (\A t \in Threads : threads[t].pc = "idle")
        => requests_made + cache_hits = Completed

\* C18: clear_cache(older_than_days = d) with d a positive number of days
\* removes exactly the entries whose last_used is earlier than now minus d days
\* and leaves every other entry in the store.
C18_PurgeRemovesOlder ==
    (/\ purge.pc = "done"
     /\ purge.older_than_days \notin {None, Some(0)}
     /\ \A i \in DOMAIN purge.commits : purge.commits[i].ok)
      => DOMAIN cache =
           {i \in 1..purge.before :
                ~(PurgeDoc(i).last_used < now - purge.older_than_days[1])}

\* C19: clear_cache returns exactly the number of entries it removed: with no
\* cutoff and no failure it removes every entry and returns the previous
\* count, and when a commit fails after earlier batches were committed the
\* count returned still is the number of entries deleted.
C19_PurgeReturnsRemoved ==
    purge.pc = "done"
      => /\ purge.ret = Some(purge.before - Cardinality(DOMAIN cache))
         /\ (purge.older_than_days = None /\ purge.ret # Some(0)) => cache = <<>>

\* C20 as stated: get_cache_stats over the current entries gives valid +
\* invalid = total, total_usage = the sum of usage_count, and
\* deduplication_rate = (total_usage - total) / total_usage * 100 exactly, 0
\* when total_usage = 0, 60.0 for total = 10 and total_usage = 25, and always
\* in [0, 100).
C20_StatsExactRate ==
    (stats.pc = "done" /\ ~stats.raised)
      => /\ stats.ret.valid + stats.ret.invalid = stats.ret.total_addresses
         /\ stats.ret.total_addresses = Len(cache)
         /\ stats.ret.total_usage = SumUsage(cache, Len(cache))
         /\ stats.ret.total_usage = 0 => stats.ret.deduplication_rate = 0
         /\ stats.ret.deduplication_rate * stats.ret.total_usage
              = (stats.ret.total_usage - stats.ret.total_addresses) * 1000
         /\ (stats.ret.total_addresses = 10 /\ stats.ret.total_usage = 25)
              => stats.ret.deduplication_rate = 600
         /\ stats.ret.deduplication_rate >= 0
         /\ stats.ret.deduplication_rate < 1000

\* C20 amended: get_cache_stats over the current entries gives valid + invalid
\* = total, total_usage = the sum of usage_count, and deduplication_rate =
\* (total_usage - total) / total_usage * 100 rounded to one decimal (within
\* 0.05 of the quotient), 0 when total_usage = 0, 60.0 for total = 10 and
\* total_usage = 25, and always in [0, 100], 100.0 included.
C20_StatsRoundedRate ==
    (stats.pc = "done" /\ ~stats.raised)
      => /\ stats.ret.valid + stats.ret.invalid = stats.ret.total_addresses
         /\ stats.ret.total_addresses = Len(cache)
         /\ stats.ret.total_usage = SumUsage(cache, Len(cache))
         /\ stats.ret.total_usage = 0 => stats.ret.deduplication_rate = 0
         /\ LET exact == (stats.ret.total_usage - stats.ret.total_addresses) * 1000
                 got == stats.ret.deduplication_rate * stats.ret.total_usage
            IN /\ 2 * (got - exact) <= stats.ret.total_usage
               /\ 2 * (exact - got) <= stats.ret.total_usage
         /\ (stats.ret.total_addresses = 10 /\ stats.ret.total_usage = 25)
              => stats.ret.deduplication_rate = 600
         /\ stats.ret.deduplication_rate >= 0
         /\ stats.ret.deduplication_rate <= 1000

C20_Witness ==
    /\ stats.pc = "done" /\ ~stats.raised
    /\ stats.ret.total_addresses = 1
    /\ stats.ret.total_usage = LargeUsage
    /\ stats.ret.deduplication_rate = 1000

\* C21: when the store answers the query, get_invalid_addresses(limit) returns
\* at most limit records, each taken from an entry whose stored result has
\* valid = false and none from an entry with valid = true; when at most limit
\* invalid entries exist, all of them are returned.
C21_InvalidEntriesBounded ==
    (stats.pc = "done" /\ ~stats.raised)
      => /\ Cardinality(DOMAIN stats.ret) <= stats.limit
         /\ \A k \in DOMAIN stats.ret :
              /\ k \in DOMAIN cache
              /\ cache[k].google_result.valid = FALSE
              /\ stats.ret[k] = [ address |-> cache[k].original_address,
                                  geocoded_at |-> cache[k].geocoded_at,
                                  usage_count |-> cache[k].usage_count ]
         /\ Cardinality({k \in DOMAIN cache : ~cache[k].google_result.valid})
               <= stats.limit
              => DOMAIN stats.ret
                   = {k \in DOMAIN cache : ~cache[k].google_result.valid}

\* more invalid entries than the limit: one of the two is returned
C21_Witness ==
    /\ stats.pc = "done" /\ ~stats.raised
    /\ stats.limit = 1
    /\ Cardinality(DOMAIN stats.ret) = 1
    /\ Cardinality({k \in DOMAIN cache : ~cache[k].google_result.valid}) = 2

C23_OneResolvePerAddressInOrder ==
    [][LET m == threads["main"]
           n == threads'["main"]
           unset == [ GoogleAddress |-> <<>>, GoogleLat |-> <<>>, GoogleLng |-> <<>>,
                      AddressValid |-> FALSE, AddressPartialMatch |-> FALSE,
                      AddressHash |-> <<>> ]
           processed == {k \in DOMAIN n.records : k < n.i}
           text(k, slot) ==
               IF slot = "from" THEN (IF n.records[k].notes THEN n.records[k].from ELSE <<>>)
               ELSE IF slot = "to" THEN (IF n.records[k].notes THEN n.records[k].to ELSE <<>>)
               ELSE IF n.records[k] = <<"NaN">> THEN <<>>
               ELSE IF n.kind = "process_customers" THEN strip(n.records[k])
               ELSE n.records[k]
           slots == IF n.kind = "process_bookings" THEN {"from", "to"} ELSE {"address"}
           made == {<<n.resolves[j].record, n.resolves[j].slot>> : j \in DOMAIN n.resolves}
           empty(k) == \A sl \in slots : IsBlank(text(k, sl))
       IN
       \* after every step of the run
       /\ \A j \in DOMAIN n.resolves :
            /\ n.resolves[j].force_recheck = FALSE
            /\ n.resolves[j].address = text(n.resolves[j].record, n.resolves[j].slot)
       /\ \A j, k \in DOMAIN n.resolves :
            j < k => \/ n.resolves[j].record < n.resolves[k].record
                     \/ /\ n.resolves[j].record = n.resolves[k].record
                        /\ n.resolves[j].slot = "from"
                        /\ n.resolves[k].slot = "to"
       /\ made = {x \in processed \X slots : ~IsBlank(text(x[1], x[2]))}
       /\ Len(n.resolves) = Cardinality(made)
       /\ requests_made' = Cardinality({j \in DOMAIN n.resolves : n.resolves[j].called})
       /\ cache_hits' = Cardinality({j \in DOMAIN n.resolves : n.resolves[j].hit})
       /\ n.kind # "geocode_batch"
            => \A k \in processed : \A sl \in slots :
                 IsBlank(text(k, sl))
                   => IF n.kind = "process_bookings"
                      THEN (IF sl = "from" THEN n.out[k].from ELSE n.out[k].to) = unset
                      ELSE n.out[k] = unset
       \* the step that handles a record without an address
       /\ (m.pc = "loop" /\ empty(m.i))
            => /\ cache' = cache
               /\ requests_made' = requests_made
               /\ cache_hits' = cache_hits
               /\ last_request_time' = last_request_time
               /\ n.resolves = m.resolves]_vars

\* process_customers over a blank address and the same address twice: the
\* blank record is skipped, the second is resolved by the provider, the third
\* from the cache
C23_Witness ==
    LET m == threads["main"] IN
    /\ m.pc = "done" /\ m.kind = "process_customers"
    /\ Len(m.records) = 3
    /\ m.records[1] = <<" ">>
    /\ Len(m.resolves) = 2
    /\ m.resolves[1].record = 2 /\ m.resolves[1].called
    /\ m.resolves[2].record = 3 /\ m.resolves[2].hit
    /\ m.ret[1][1].AddressHash = <<>>

\* C24: no step of geocode (with its save_geocoding_result or manual_recheck)
\* and no get_cached_geocoding lookup removes a key from the cache: the set of
\* keys never shrinks.
C24_KeysNeverShrink ==
    [][DOMAIN cache \subseteq DOMAIN cache']_vars

\* two entries are stored, and a forced recheck has rewritten one of them
C24_Witness ==
    /\ Cardinality(DOMAIN cache) = 2
    /\ last.op = "geocode"
    /\ last.write = "manual_recheck"
    /\ last.write_ret \in DOMAIN cache

\* C25: within one geocode call a provider call is immediately preceded by a
\* rate-limiter acquire of the same call, a cache hit makes neither an acquire
\* nor a provider call, a cache write (save_geocoding_result, manual_recheck)
\* comes only after a provider call that returned a result, and the call makes
\* at most one provider call.
C25_StepsOrdered ==
    LET m == threads["main"] IN
    /\ \A i \in DOMAIN m.trace :
         m.trace[i] = "provider_call" => (i > 1 /\ m.trace[i - 1] = "acquire")
    /\ (m.hit \/ m.pc = "hit")
         => \A i \in DOMAIN m.trace : m.trace[i] \notin {"acquire", "provider_call"}
    /\ \A i \in DOMAIN m.trace :
         m.trace[i] = "write"
           => /\ \E j \in 1..(i - 1) : m.trace[j] = "provider_call"
              /\ m.result # None
    /\ Cardinality({i \in DOMAIN m.trace : m.trace[i] = "provider_call"}) <= 1
    /\ Cardinality({i \in DOMAIN m.trace : m.trace[i] = "acquire"}) <= 1

\* a call that missed the cache, passed the limiter, asked the provider and
\* stored the result
C25_Witness ==
    LET m == threads["main"] IN
    /\ m.pc = "idle" /\ m.done > 0
    /\ m.trace = <<"lookup", "acquire", "provider_call", "write">>
    /\ m.result # None

\* C26: for one sequential caller, every completed geocode call of a non-blank
\* address has increased exactly one of requests_made and cache_hits, by
\* exactly 1: requests_made if and only if the provider was called, whatever
\* it answered, cache_hits if and only if the cache answered; a call of a
\* blank address changes neither; the counters never decrease; between calls
\* requests_made + cache_hits is the number of completed non-blank calls, and
\* get_stats reports that number as total_lookups and divides cache_hits by it
\* for cache_hit_rate.
C26_CountersCountResolves ==
    /\ [](threads["main"].pc = "idle"
           => /\ requests_made + cache_hits = threads["main"].resolved
              /\ threads["main"].done > 0
                   => /\ requests_made - threads["main"].rm0
                          = IF \E i \in DOMAIN threads["main"].trace :
                                  threads["main"].trace[i] = "provider_call"
                            THEN 1 ELSE 0
                      /\ cache_hits - threads["main"].ch0
                          = IF threads["main"].hit THEN 1 ELSE 0
                      /\ (requests_made - threads["main"].rm0)
                           + (cache_hits - threads["main"].ch0)
                          = IF strip(threads["main"].address) = <<>> THEN 0 ELSE 1)
    /\ [][requests_made' >= requests_made /\ cache_hits' >= cache_hits]_vars
    /\ [][stats' # stats
            => /\ stats'.ret.api_requests = requests_made
               /\ stats'.ret.cache_hits = cache_hits
               /\ stats'.ret.total_lookups = threads["main"].resolved
               /\ stats'.ret.total_lookups = 0 => stats'.ret.cache_hit_rate = 0
               /\ 2 * (stats'.ret.cache_hit_rate * threads["main"].resolved
                         - 1000 * cache_hits) <= threads["main"].resolved
               /\ 2 * (1000 * cache_hits
                         - stats'.ret.cache_hit_rate * threads["main"].resolved)
                     <= threads["main"].resolved]_vars

\* three calls completed for a non-blank address, one answered by the cache,
\* one ended by a provider error, and the statistics read afterwards
C26_Witness ==
    /\ threads["main"].pc = "idle"
    /\ threads["main"].resolved = 3
    /\ cache_hits = 1 /\ requests_made = 2
    /\ Cardinality(DOMAIN cache) = 1
    /\ stats.pc = "session"
    /\ stats.ret.total_lookups = 3
    /\ stats.ret.cache_hit_rate = 333

\* C27: a geocode call with force_recheck = True whose provider call ends in an
\* error returns None and leaves the collection, and so the entry of the
\* address with its result, manual_override, usage_count and timestamps,
\* exactly as it was.
C27_FailedRecheckKeepsEntry ==
    [][(StepIs("geocode") /\ last'.force_recheck /\ last'.outcome = "error")
        => /\ last'.ret = None
           /\ last'.write = "none"
           /\ cache' = cache]_vars

\* the forced recheck of an address whose entry has been stored and hit once
\* fails at the provider
C27_Witness ==
    /\ last.op = "geocode" /\ last.force_recheck /\ last.outcome = "error"
    /\ last.ret = None
    /\ HashOf(last.address) \in DOMAIN cache
    /\ cache[HashOf(last.address)].usage_count = 2
    /\ cache[HashOf(last.address)].last_used = 1
    /\ now = 1

\* C28: for every address that is not blank, one made only of punctuation
\* included: when a non-forced geocode call returns a result while the store
\* is available, the next non-forced geocode call of that address is a cache
\* hit and makes no provider call.
C28_ResolvedAddressHitsNext ==
    [][(/\ last.op = "geocode" /\ ~last.force_recheck /\ ~last.store_error
        /\ ~IsBlank(last.address) /\ last.ret # None
        /\ StepIs("geocode") /\ last'.address = last.address
        /\ ~last'.force_recheck /\ ~last'.store_error)
        => /\ last'.hit
           /\ last'.outcome = "-"
           /\ requests_made' = requests_made]_vars

\* C29: when the provider answers OK, the parsed suburb is the name of a
\* locality component whenever the answer has one, whatever the order of the
\* components, and the name of a sublocality component only when it has no
\* locality component; the street_number, route, administrative_area_level_1,
\* postal_code and country components fill street_number, street_name, state,
\* postcode and country.
C29_LocalityBeforeSublocality ==
    pure.stage = "parsed"
      => LET names(type) == {pure.address_components[i].long_name :
                               i \in {j \in DOMAIN pure.address_components :
                                        type \in pure.address_components[j].types}}
             filled(field, type) ==
                 IF names(type) = {} THEN pure.components[field] = ""
                 ELSE pure.components[field] \in names(type)
         IN /\ names("locality") # {} => pure.components.suburb \in names("locality")
            /\ (names("locality") = {} /\ names("sublocality") # {})
                 => pure.components.suburb \in names("sublocality")
            /\ (names("locality") = {} /\ names("sublocality") = {})
                 => pure.components.suburb = ""
            /\ filled("street_number", "street_number")
            /\ filled("street_name", "route")
            /\ filled("state", "administrative_area_level_1")
            /\ filled("postcode", "postal_code")
            /\ filled("country", "country")

\* the sublocality comes first and has another name than the locality
C29_Witness ==
    /\ pure.stage = "parsed"
    /\ Len(pure.address_components) = 3
    /\ "sublocality" \in pure.address_components[1].types
    /\ pure.address_components[1].long_name = "a"
    /\ "locality" \in pure.address_components[2].types
    /\ pure.address_components[2].long_name = "b"
    /\ pure.components.suburb = "b"

\* C30: clear_cache commits its deletes in write batches of at least one and
\* at most 500 deletes, and when it returns from a run in which no store call
\* failed, every entry it selected for deletion has been deleted by a
\* committed batch: no delete is left in an uncommitted batch.
C30_PurgeBatchesCommitted ==
    /\ purge.pc # "idle"
         => /\ Cardinality(purge.batch) <= 500
            /\ \A i \in DOMAIN purge.commits :
                 purge.commits[i].size >= 1 /\ purge.commits[i].size <= 500
    /\ (/\ purge.pc = "done"
        /\ \A i \in DOMAIN purge.commits : purge.commits[i].ok)
         => /\ purge.docs \cap DOMAIN cache = {}
            /\ purge.batch = {}
            /\ Cardinality(DOMAIN cache) = purge.before - Cardinality(purge.docs)

\* 501 entries are cleared by a batch of 500 and a trailing batch of one
C30_Witness ==
    /\ purge.pc = "done"
    /\ purge.before = 501
    /\ purge.commits = <<[size |-> 500, ok |-> TRUE], [size |-> 1, ok |-> TRUE]>>
    /\ purge.ret = Some(501)
    /\ cache = <<>>
====
